---------------------------- MODULE Spec2Model ----------------------------
(***************************************************************************)
(* Model of zabbix-threat-control-go: the aggregator and its statistics,   *)
(* the scan orchestrator (Scanner.Scan) with the host matrix, the          *)
(* two-phase publish (Scanner.PushResults), the remediation planner and    *)
(* executor (Fixer.Plan, Executor), the provisioning of the monitor        *)
(* (internal/zabbix) and the scan cache of the Agent 2 plugin.             *)
(*                                                                         *)
(* CVSS scores are held in tenths (75 stands for 7.5), so that the         *)
(* comparisons of the code are integer comparisons.                        *)
(***************************************************************************)
EXTENDS Integers, Sequences, FiniteSets, TLC

VARIABLES
    aggregator,        \* Scanner.aggregator: [hosts, packages, bulletins]
    cfgWorkers,        \* cfg.Scan.Workers
    ctxDone,           \* the context handed to Scan / PushResults is cancelled
    scanPc,            \* position of the Scan call
    scanHosts,         \* the hosts FetchHosts returned to the running Scan
    task,              \* per host: position of its goroutine
    taskEntry,         \* per host: the entry scanHost returned
    semaphore,         \* number of slots taken in the semaphore channel
    mu,                \* holder of the mutex of Scan, or Free
    scanReturn,        \* what Scan returned: [results, err]
    scansDone,         \* number of Scan calls started on this Scanner
    scanAdded,         \* history: entries handed to AddHost by the running Scan
    cancelAt,          \* history: where the calls stood when ctx was cancelled
    lldDelay,          \* cfg.Scan.LLDDelay, in seconds
    pushPc,            \* position of the PushResults call
    pushResults,       \* the results handed to PushResults
    batchI,            \* SendBatch: index i of the next batch
    sent,              \* the sends zabbix_sender has completed, in order
    elapsed,           \* seconds since the settle timer was armed
    pushReturn,        \* what PushResults returned
    fixLLD,            \* the published bulletins / packages discovery payloads
    fixOpts,           \* the FixOptions of the last Plan call
    fixReturn,         \* what Plan returned: [plan, err]
    fixFails,          \* the monitor API methods that failed during that call
    execPc,            \* position of the executeOnHost call
    execIn,            \* its inputs: [UseSSH, HostIP, SSHUser]
    execI,             \* ExecuteWithRetry: the loop index i
    execAttempts,      \* history: number of calls of fn made
    execSpawned,       \* history: the subprocesses spawned, in order
    execWaits,         \* history: the back-off waits completed, in seconds
    execResult,        \* HostFixResult: [Success, Error]
    hmItems,           \* per monitored host: last values of its OS and packages items
    hmPc,              \* position of the Scan call that fetches and audits
    hmIndex,           \* FetchHosts: index of the next host of its loop
    hmData,            \* FetchHosts: the host data collected so far
    hmAudited,         \* history: the host data handed to LinuxAudit
    hmScanned,         \* hosts_scanned of the results
    cmdPc,             \* position of the GenerateFixCommand call
    cmdOs,             \* its osName argument
    cmdPackages,       \* its packages argument
    cmdCommand,        \* the command it returned
    verPc,             \* position of the template provisioning
    apiVersion,        \* Client.apiVersion
    verTemplateGroup,  \* the template group came from the template-group endpoints
    verLegacy,         \* the trigger prototypes use the legacy expression syntax
    monObjects,        \* the objects of the monitor
    provBefore,        \* history: the objects before the last provisioning call
    provRequests,      \* history: the create, update and delete requests of that call
    provLast,          \* history: that call: [op, force, err, repeat]
    provRuns,          \* number of provisioning calls made
    cacheWriter,       \* ScanCache.mu is held for writing
    cacheReaders,      \* number of read locks held on ScanCache.mu
    cacheResults,      \* ScanCache.results
    cacheStats,        \* ScanCache.stats
    cacheScans,        \* number of scans the scan loop has run
    updPc,             \* position of the scan loop inside Update
    rdPc,              \* per reader: position of its Export call
    rdKey,             \* per reader: the key of the call
    rdResults,         \* per reader: what Results() returned
    rdStats,           \* per reader: what Stats() returned
    rdErr,             \* per reader: the error Export returned
    resCalls,          \* the results of the GetResults calls made on the current aggregates
    fxWorkers,         \* cfg.Scan.Workers of the Fixer
    fxPlan,            \* plan.Hosts, by host ID
    fxPc,              \* position of the Execute call
    fxTask,            \* per planned host: position of its goroutine
    fxTaskResult,      \* per planned host: the HostFixResult of executeOnHost
    fxSemaphore,       \* number of slots taken in the semaphore channel
    fxMu,              \* holder of the mutex of Execute, or 0
    fxResults,         \* the FixResults being filled
    fxReturn,          \* what Execute returned: [results, err]
    plPc,              \* life cycle of the plugin: configured, started, stopping, stopped
    plCfg,             \* p.cfg is set (Configure built a configuration)
    plCtxDone,         \* the context of the scan loop is cancelled
    plWg,              \* counter of p.wg
    loopPc,            \* position of the scanLoop goroutine
    tickC,             \* the ticker and its channel: off, empty or full
    plTicks,           \* ticks delivered so far
    plScans,           \* Scan calls started by runScan
    plUpdates,         \* cache.Update calls made by runScan
    plAtStop           \* where the scan loop was when Stop was called

aggVars  == <<aggregator>>
scanVars == <<cfgWorkers, ctxDone, scanPc, scanHosts, task, taskEntry, semaphore,
              mu, scanReturn, scansDone, scanAdded, cancelAt>>
pushVars == <<lldDelay, pushPc, pushResults, batchI, sent, elapsed, pushReturn>>
fixVars  == <<fixLLD, fixOpts, fixReturn, fixFails>>
execVars == <<execPc, execIn, execI, execAttempts, execSpawned, execWaits, execResult>>
hmVars   == <<hmItems, hmPc, hmIndex, hmData, hmAudited, hmScanned>>
cmdVars  == <<cmdPc, cmdOs, cmdPackages, cmdCommand>>
verVars  == <<verPc, apiVersion, verTemplateGroup, verLegacy>>
provVars == <<monObjects, provBefore, provRequests, provLast, provRuns>>
rdVars   == <<rdPc, rdKey, rdResults, rdStats, rdErr>>
cacheVars == <<cacheWriter, cacheReaders, cacheResults, cacheStats, cacheScans, updPc>>
resVars  == <<resCalls>>
fxVars   == <<fxWorkers, fxPlan, fxPc, fxTask, fxTaskResult, fxSemaphore, fxMu, fxResults, fxReturn>>
plVars   == <<plPc, plCfg, plCtxDone, plWg, loopPc, tickC, plTicks, plScans, plUpdates, plAtStop>>
tailVars == <<resVars, fxVars, plVars>>
preTailVars == <<cmdVars, verVars, provVars, cacheVars, rdVars>>
lateVars == <<cmdVars, verVars, provVars, cacheVars, rdVars, tailVars>>
otherVars == <<execVars, hmVars, lateVars>>
coreVars == <<aggVars, scanVars, pushVars, fixVars>>
vars     == <<coreVars, otherVars>>

-----------------------------------------------------------------------------
(* Generic helpers *)

Range(s) == {s[i] : i \in 1..Len(s)}

NoDup(s) == \A i, j \in 1..Len(s) : s[i] = s[j] => i = j

Max(S) == CHOOSE m \in S : \A x \in S : x <= m

\* The elements of s in the order of their first occurrence.
RECURSIVE FirstSeen(_)
FirstSeen(s) ==
    IF s = <<>> THEN <<>>
    ELSE LET r == FirstSeen(SubSeq(s, 1, Len(s) - 1))
             x == s[Len(s)]
         IN  IF x \in Range(r) THEN r ELSE Append(r, x)

-----------------------------------------------------------------------------
(* Bounds and input sets *)

MaxAdds == 3

MaxScans == 2

MaxWorkers == 2

\* Largest lld_delay, in seconds
MaxDelay == 2

\* const batchSize in SendBatch
batchSize == 1000

\* cfg.Scan.MinCVSS: the default 1.0
MinCVSS == 10

\* Hosts of the AddHost sequences
HostIDs == {"1", "2"}

\* Monitored hosts linked to the OS-Report template
ScanHostIDs == {"1", "2", "3"}

\* zabbix.Host.Name (visible name) of a monitored host
VisibleName(h) == IF h = "1" THEN "Alpha" ELSE IF h = "2" THEN "Beta" ELSE "Gamma"

PackageVuln(n, s, bs) ==
    [Name |-> n, Version |-> "1.1.1", Arch |-> "amd64", Score |-> s, Bulletins |-> bs]

BulletinSummary(id, s, cves, pkgs) ==
    [ID |-> id, Score |-> s, CVEs |-> cves, AffectedPkg |-> pkgs]

\* The package lists and bulletin lists scanHost can put into a HostEntry.
PackageLists ==
    { <<>>,
      <<PackageVuln("openssl", 50, <<"USN-1">>)>>,
      <<PackageVuln("openssl", 90, <<"USN-1", "USN-2">>), PackageVuln("curl", 50, <<"USN-2">>)>> }

BulletinLists ==
    { <<>>,
      <<BulletinSummary("USN-1", 50, <<"CVE-1">>, <<"openssl 1.1.1 amd64">>)>>,
      <<BulletinSummary("USN-1", 90, <<"CVE-2", "CVE-1">>, <<"curl 7.68 amd64">>),
        BulletinSummary("USN-2", 50, <<"CVE-3">>, <<"curl 7.68 amd64", "openssl 1.1.1 amd64">>)>> }

ListScores(l) == {l[i].Score : i \in 1..Len(l)}

HostEntry(h, ps, bs) ==
    [HostID |-> h, Name |-> VisibleName(h),
     Score |-> Max(ListScores(ps) \cup ListScores(bs) \cup {0}),
     Packages |-> ps, Bulletins |-> bs]

HostEntries == {HostEntry(h, ps, bs) : h \in HostIDs, ps \in PackageLists, bs \in BulletinLists}

-----------------------------------------------------------------------------
(* Aggregator (internal/scanner/aggregator.go) *)

\* A Go map: a function whose domain is the set of keys present.
EmptyMap == <<>>

NewAggregator == [hosts |-> <<>>, packages |-> EmptyMap, bulletins |-> EmptyMap]

Reset(a) == [hosts |-> <<>>, packages |-> EmptyMap, bulletins |-> EmptyMap]

appendUniqueAlways(slice, value) == Append(slice, value)

appendUnique(slice, value) ==
    IF \E i \in 1..Len(slice) : slice[i] = value THEN slice ELSE Append(slice, value)

RECURSIVE appendUniqueSliceLoop(_, _, _)
appendUniqueSliceLoop(dst, existing, src) ==
    IF src = <<>> THEN dst
    ELSE IF Head(src) \notin existing
         THEN appendUniqueSliceLoop(Append(dst, Head(src)), existing \cup {Head(src)}, Tail(src))
         ELSE appendUniqueSliceLoop(dst, existing, Tail(src))

appendUniqueSlice(dst, src) == appendUniqueSliceLoop(dst, Range(dst), src)

PackageKey(pkg) == pkg.Name \o "|" \o pkg.Version \o "|" \o pkg.Arch

MapPut(m, key, val) == [k \in (DOMAIN m) \cup {key} |-> IF k = key THEN val ELSE m[k]]

\* One iteration of the package loop of AddHost, with the score overwritten.
AddPackageLastWins(pkgs, entry, pkg) ==
    LET key  == PackageKey(pkg)
        base == IF key \in DOMAIN pkgs THEN pkgs[key]
                ELSE [Name |-> pkg.Name, Version |-> pkg.Version, Arch |-> pkg.Arch,
                      Score |-> pkg.Score, AffectedHosts |-> <<>>,
                      AffectedHostNames |-> <<>>, Bulletins |-> <<>>]
    IN  MapPut(pkgs, key,
               [base EXCEPT !.AffectedHosts = appendUnique(@, entry.HostID),
                            !.AffectedHostNames = appendUnique(@, entry.Name),
                            !.Bulletins = appendUniqueSlice(@, pkg.Bulletins),
                            !.Score = pkg.Score])

\* One iteration of the package loop of AddHost.
AddPackage(pkgs, entry, pkg) ==
    LET key  == PackageKey(pkg)
        base == IF key \in DOMAIN pkgs THEN pkgs[key]
                ELSE [Name |-> pkg.Name, Version |-> pkg.Version, Arch |-> pkg.Arch,
                      Score |-> pkg.Score, AffectedHosts |-> <<>>,
                      AffectedHostNames |-> <<>>, Bulletins |-> <<>>]
    IN  MapPut(pkgs, key,
               [base EXCEPT !.AffectedHosts = appendUnique(@, entry.HostID),
                            !.AffectedHostNames = appendUnique(@, entry.Name),
                            !.Bulletins = appendUniqueSlice(@, pkg.Bulletins),
                            !.Score = IF pkg.Score > @ THEN pkg.Score ELSE @])

\* One iteration of the bulletin loop of AddHost. CVEs are set when the
\* aggregate is created and not touched afterwards.
AddBulletin(buls, entry, bulletin) ==
    LET key  == bulletin.ID
        base == IF key \in DOMAIN buls THEN buls[key]
                ELSE [ID |-> bulletin.ID, Score |-> bulletin.Score, CVEs |-> bulletin.CVEs,
                      AffectedHosts |-> <<>>, AffectedHostNames |-> <<>>,
                      AffectedPkgs |-> <<>>]
    IN  MapPut(buls, key,
               [base EXCEPT !.AffectedHosts = appendUnique(@, entry.HostID),
                            !.AffectedHostNames = appendUnique(@, entry.Name),
                            !.AffectedPkgs = appendUniqueSlice(@, bulletin.AffectedPkg),
                            !.Score = IF bulletin.Score > @ THEN bulletin.Score ELSE @])

RECURSIVE AddPackages(_, _, _)
AddPackages(pkgs, entry, list) ==
    IF list = <<>> THEN pkgs
    ELSE AddPackages(AddPackage(pkgs, entry, Head(list)), entry, Tail(list))

RECURSIVE AddBulletins(_, _, _)
AddBulletins(buls, entry, list) ==
    IF list = <<>> THEN buls
    ELSE AddBulletins(AddBulletin(buls, entry, Head(list)), entry, Tail(list))

AddHost(a, entry) ==
    [hosts     |-> Append(a.hosts, entry),
     packages  |-> AddPackages(a.packages, entry, entry.Packages),
     bulletins |-> AddBulletins(a.bulletins, entry, entry.Bulletins)]

-----------------------------------------------------------------------------
(* Values of the variables a specification does not use *)

Free == "free"
NoEntry == [HostID |-> "none"]
NoReturn == [results |-> "none", err |-> "none"]

AggIdle == aggregator = NewAggregator

ScanIdle ==
    /\ cfgWorkers = 1
    /\ ctxDone = FALSE
    /\ scanPc = "idle"
    /\ scanHosts = {}
    /\ task = [h \in ScanHostIDs |-> "none"]
    /\ taskEntry = [h \in ScanHostIDs |-> NoEntry]
    /\ semaphore = 0
    /\ mu = Free
    /\ scanReturn = NoReturn
    /\ scansDone = 0
    /\ scanAdded = <<>>
    /\ cancelAt = "none"

PushIdle ==
    /\ lldDelay = 0
    /\ pushPc = "idle"
    /\ pushResults = "none"
    /\ batchI = 0
    /\ sent = <<>>
    /\ elapsed = 0
    /\ pushReturn = "none"

\* An item's last value: the empty string, or the JSON text of a discovery
\* payload, kept as the list of its entries.
EmptyValue == [empty |-> TRUE, data |-> <<>>]

LLDJSON(data) == [empty |-> FALSE, data |-> data]

\* A nil *FixPlan or *HostFixPlan
NilPlan == [nil |-> TRUE, Hosts |-> <<>>]

\* Before Plan is called
NoPlanReturn == [plan |-> NilPlan, err |-> "none"]

NoFixOptions == [HostID |-> "", HostName |-> "", BulletinID |-> ""]

FixIdle ==
    /\ fixLLD = [packages |-> EmptyValue, bulletins |-> EmptyValue]
    /\ fixOpts = NoFixOptions
    /\ fixReturn = NoPlanReturn
    /\ fixFails = {}

NoExecInput == [UseSSH |-> FALSE, HostIP |-> <<>>, SSHUser |-> <<>>]

NoExecResult == [Success |-> FALSE, Error |-> "none"]

ExecIdle ==
    /\ execPc = "idle"
    /\ execIn = NoExecInput
    /\ execI = 0
    /\ execAttempts = 0
    /\ execSpawned = <<>>
    /\ execWaits = <<>>
    /\ execResult = NoExecResult

MatrixIdle ==
    /\ hmItems = <<>>
    /\ hmPc = "idle"
    /\ hmIndex = 0
    /\ hmData = <<>>
    /\ hmAudited = <<>>
    /\ hmScanned = 0

CmdIdle ==
    /\ cmdPc = "idle"
    /\ cmdOs = ""
    /\ cmdPackages = <<>>
    /\ cmdCommand = ""

VerIdle ==
    /\ verPc = "idle"
    /\ apiVersion = <<>>
    /\ verTemplateGroup = FALSE
    /\ verLegacy = FALSE

NoProvCall == [op |-> "none", force |-> FALSE, err |-> "none", repeat |-> FALSE]

ProvIdle ==
    /\ monObjects = {}
    /\ provBefore = {}
    /\ provRequests = <<>>
    /\ provLast = NoProvCall
    /\ provRuns = 0

CacheIdle ==
    /\ cacheWriter = FALSE
    /\ cacheReaders = 0
    /\ cacheResults = 0
    /\ cacheStats = 0
    /\ cacheScans = 0
    /\ updPc = "idle"
    /\ rdPc = <<>>
    /\ rdKey = <<>>
    /\ rdResults = <<>>
    /\ rdStats = <<>>
    /\ rdErr = <<>>

ResIdle == resCalls = <<>>

NoFixResults == [Successful |-> 0, Failed |-> 0, Hosts |-> <<>>]

NoFixReturn == [results |-> NoFixResults, err |-> "none"]

FxIdle ==
    /\ fxWorkers = 1
    /\ fxPlan = <<>>
    /\ fxPc = "idle"
    /\ fxTask = <<>>
    /\ fxTaskResult = <<>>
    /\ fxSemaphore = 0
    /\ fxMu = 0
    /\ fxResults = NoFixResults
    /\ fxReturn = NoFixReturn

PlIdle ==
    /\ plPc = "configured"
    /\ plCfg = TRUE
    /\ plCtxDone = FALSE
    /\ plWg = 0
    /\ loopPc = "none"
    /\ tickC = "off"
    /\ plTicks = 0
    /\ plScans = 0
    /\ plUpdates = 0
    /\ plAtStop = "none"

TailIdle == ResIdle /\ FxIdle /\ PlIdle

LateIdle == CmdIdle /\ VerIdle /\ ProvIdle /\ CacheIdle /\ TailIdle

OtherIdle == ExecIdle /\ MatrixIdle /\ LateIdle

-----------------------------------------------------------------------------
(* SpecAgg: any sequence of AddHost and Reset calls on one Aggregator *)

AggInit == AggIdle /\ ScanIdle /\ PushIdle /\ FixIdle /\ OtherIdle

AggAddHost ==
    /\ Len(aggregator.hosts) < MaxAdds
    /\ \E entry \in HostEntries : aggregator' = AddHost(aggregator, entry)
    /\ UNCHANGED <<scanVars, pushVars, fixVars, otherVars>>

AggReset ==
    /\ aggregator.hosts # <<>>
    /\ aggregator' = Reset(aggregator)
    /\ UNCHANGED <<scanVars, pushVars, fixVars, otherVars>>

AggNext == AggAddHost \/ AggReset

SpecAgg == AggInit /\ [][AggNext]_vars

-----------------------------------------------------------------------------
(* What the entries added so far contributed to one key *)

\* <<host index, package>> of every per-host package entry with this key
PackageContribs(a, key) ==
    {<<i, j>> \in (1..Len(a.hosts)) \X (1..2) :
        j <= Len(a.hosts[i].Packages) /\ PackageKey(a.hosts[i].Packages[j]) = key}

BulletinContribs(a, id) ==
    {<<i, j>> \in (1..Len(a.hosts)) \X (1..2) :
        j <= Len(a.hosts[i].Bulletins) /\ a.hosts[i].Bulletins[j].ID = id}

HasPackage(e, key) == \E j \in 1..Len(e.Packages) : PackageKey(e.Packages[j]) = key
HasBulletin(e, id) == \E j \in 1..Len(e.Bulletins) : e.Bulletins[j].ID = id

\* The added entries that carry the key, in call order
RECURSIVE EntriesWithPackage(_, _)
EntriesWithPackage(hs, key) ==
    IF hs = <<>> THEN <<>>
    ELSE LET r == EntriesWithPackage(SubSeq(hs, 1, Len(hs) - 1), key)
         IN  IF HasPackage(hs[Len(hs)], key) THEN Append(r, hs[Len(hs)]) ELSE r

RECURSIVE EntriesWithBulletin(_, _)
EntriesWithBulletin(hs, id) ==
    IF hs = <<>> THEN <<>>
    ELSE LET r == EntriesWithBulletin(SubSeq(hs, 1, Len(hs) - 1), id)
         IN  IF HasBulletin(hs[Len(hs)], id) THEN Append(r, hs[Len(hs)]) ELSE r

IdsOf(es) == [i \in 1..Len(es) |-> es[i].HostID]
NamesOf(es) == [i \in 1..Len(es) |-> es[i].Name]

-----------------------------------------------------------------------------
(* C7: after any sequence of AddHost calls a bulletin aggregate's CVE list
   is the duplicate-free union of the CVE lists of every host entry that
   contributed the bulletin, and its affected-package list is the
   duplicate-free union of their affected packages. *)
C7_BulletinUnion ==
    \A id \in DOMAIN aggregator.bulletins :
        LET b == aggregator.bulletins[id]
            c == BulletinContribs(aggregator, id)
        IN  /\ NoDup(b.CVEs)
            /\ Range(b.CVEs) =
                 UNION {Range(aggregator.hosts[p[1]].Bulletins[p[2]].CVEs) : p \in c}
            /\ NoDup(b.AffectedPkgs)
            /\ Range(b.AffectedPkgs) =
                 UNION {Range(aggregator.hosts[p[1]].Bulletins[p[2]].AffectedPkg) : p \in c}

(* The affected-package half of C7, which the code does satisfy. *)
C7_AffectedPkgsUnion ==
    \A id \in DOMAIN aggregator.bulletins :
        LET b == aggregator.bulletins[id]
            c == BulletinContribs(aggregator, id)
        IN  /\ NoDup(b.AffectedPkgs)
            /\ Range(b.AffectedPkgs) =
                 UNION {Range(aggregator.hosts[p[1]].Bulletins[p[2]].AffectedPkg) : p \in c}

(* C8: a package or bulletin aggregate's score never decreases across
   AddHost calls, and after any sequence of AddHost calls it equals the
   maximum score among the per-host entries that contributed to its key. *)
ScoreIsMax ==
    /\ \A key \in DOMAIN aggregator.packages :
          aggregator.packages[key].Score =
            Max({aggregator.hosts[p[1]].Packages[p[2]].Score :
                    p \in PackageContribs(aggregator, key)})
    /\ \A id \in DOMAIN aggregator.bulletins :
          aggregator.bulletins[id].Score =
            Max({aggregator.hosts[p[1]].Bulletins[p[2]].Score :
                    p \in BulletinContribs(aggregator, id)})

ScoreNonDecreasing ==
    /\ \A key \in (DOMAIN aggregator.packages) \cap (DOMAIN aggregator'.packages) :
          Len(aggregator'.hosts) > Len(aggregator.hosts)
             => aggregator'.packages[key].Score >= aggregator.packages[key].Score
    /\ \A id \in (DOMAIN aggregator.bulletins) \cap (DOMAIN aggregator'.bulletins) :
          Len(aggregator'.hosts) > Len(aggregator.hosts)
             => aggregator'.bulletins[id].Score >= aggregator.bulletins[id].Score

C8_ScoreMonotoneMax == []ScoreIsMax /\ [][ScoreNonDecreasing]_vars

\* A package aggregate that kept 90 although the entry added last scored 50.
C8_Witness ==
    /\ Len(aggregator.hosts) = 2
    /\ "openssl|1.1.1|amd64" \in DOMAIN aggregator.packages
    /\ aggregator.hosts[1].HostID # aggregator.hosts[2].HostID
    /\ HasPackage(aggregator.hosts[1], "openssl|1.1.1|amd64")
    /\ HasPackage(aggregator.hosts[2], "openssl|1.1.1|amd64")
    /\ aggregator.hosts[1].Packages[1].Score = 90
    /\ aggregator.hosts[2].Packages[1].Score = 50
    /\ aggregator.packages["openssl|1.1.1|amd64"].Score = 90

(* C9: for any sequence of AddHost calls, the same host added more than once
   included, each affected-host list (host IDs and visible names) of every
   package and bulletin aggregate has no duplicate and lists the hosts in
   the order of their first insertion. *)
C9_AffectedHostsFirstSeen ==
    /\ \A key \in DOMAIN aggregator.packages :
          LET es == EntriesWithPackage(aggregator.hosts, key)
              p  == aggregator.packages[key]
          IN  /\ p.AffectedHosts = FirstSeen(IdsOf(es))
              /\ p.AffectedHostNames = FirstSeen(NamesOf(es))
              /\ NoDup(p.AffectedHosts)
              /\ NoDup(p.AffectedHostNames)
    /\ \A id \in DOMAIN aggregator.bulletins :
          LET es == EntriesWithBulletin(aggregator.hosts, id)
              b  == aggregator.bulletins[id]
          IN  /\ b.AffectedHosts = FirstSeen(IdsOf(es))
              /\ b.AffectedHostNames = FirstSeen(NamesOf(es))
              /\ NoDup(b.AffectedHosts)
              /\ NoDup(b.AffectedHostNames)

\* Host 2, then host 1, then host 2 again, all carrying the same package.
C9_Witness ==
    /\ Len(aggregator.hosts) = 3
    /\ aggregator.hosts[1].HostID = "2"
    /\ aggregator.hosts[2].HostID = "1"
    /\ aggregator.hosts[3].HostID = "2"
    /\ \A i \in 1..3 : HasPackage(aggregator.hosts[i], "openssl|1.1.1|amd64")
    /\ aggregator.packages["openssl|1.1.1|amd64"].AffectedHosts = <<"2", "1">>
    /\ aggregator.packages["openssl|1.1.1|amd64"].AffectedHostNames = <<"Beta", "Alpha">>

-----------------------------------------------------------------------------
(* Scanner.Scan (internal/scanner/scanner.go) *)

\* What LinuxAudit returns for a host, after extractVulnPackages and
\* extractBulletins: a clean host, and a host with one finding above and one
\* below min_cvss, and one exactly at min_cvss.
AuditResults ==
    { [CVSSScore |-> 0, Packages |-> <<>>, Bulletins |-> <<>>],
      [CVSSScore |-> 90,
       Packages |-> <<PackageVuln("openssl", 90, <<"USN-1">>), PackageVuln("curl", 5, <<"USN-2">>),
                      PackageVuln("bash", 10, <<"USN-3">>)>>,
       Bulletins |-> <<BulletinSummary("USN-1", 90, <<"CVE-1">>, <<"openssl 1.1.1 amd64">>),
                       BulletinSummary("USN-2", 5, <<"CVE-3">>, <<"curl 7.68 amd64">>),
                       BulletinSummary("USN-3", 10, <<"CVE-4">>, <<"bash 5.1 amd64">>)>>] }

FilterByMinCVSSStrictlyAbove(packages, minScore) ==
    SelectSeq(packages, LAMBDA pkg : pkg.Score > minScore)

FilterByMinCVSS(packages, minScore) == SelectSeq(packages, LAMBDA pkg : pkg.Score >= minScore)

FilterBulletinsByMinCVSS(bulletins, minScore) == SelectSeq(bulletins, LAMBDA b : b.Score >= minScore)

\* The entry scanHost builds from a successful audit
scanHost(h, auditResult) ==
    [HostID |-> h, Name |-> VisibleName(h), Score |-> auditResult.CVSSScore,
     Packages |-> FilterByMinCVSS(auditResult.Packages, MinCVSS),
     Bulletins |-> FilterBulletinsByMinCVSS(auditResult.Bulletins, MinCVSS)]

\* workers, clamped to at least 1: the capacity of the semaphore channel
Workers == IF cfgWorkers <= 0 THEN 1 ELSE cfgWorkers

SemaphoreHasRoomOffByOne == semaphore <= Workers

\* A send on the buffered channel proceeds while it is not full
SemaphoreHasRoom == semaphore < Workers

\* The orders sort.Slice can leave the values of a map in: every order of
\* the entries that is non-increasing by score (the map is iterated in
\* random order and the sort is not stable).
SortedByScore(m) ==
    LET n == Cardinality(DOMAIN m)
    IN  { [i \in 1..n |-> m[ks[i]]] :
            ks \in { q \in [1..n -> DOMAIN m] :
                       /\ \A i, j \in 1..n : q[i] = q[j] => i = j
                       /\ \A i \in 1..(n - 1) : m[q[i]].Score >= m[q[i + 1]].Score } }

HostsWithVulns(hs) == Cardinality({i \in 1..Len(hs) : hs[i].Score > 0})

MaxCVSSOf(hs) == Max({hs[i].Score : i \in 1..Len(hs)} \cup {0})

\* The results GetResults can return for aggregator a
GetResults(a) ==
    { [HostsScanned |-> Len(a.hosts), HostsWithVulns |-> HostsWithVulns(a.hosts),
       VulnerablePackages |-> Cardinality(DOMAIN a.packages), MaxCVSS |-> MaxCVSSOf(a.hosts),
       Hosts |-> a.hosts, Packages |-> ps, Bulletins |-> bs] :
        ps \in SortedByScore(a.packages), bs \in SortedByScore(a.bulletins) }

\* &ScanResults{}
EmptyResults ==
    [HostsScanned |-> 0, HostsWithVulns |-> 0, VulnerablePackages |-> 0, MaxCVSS |-> 0,
     Hosts |-> <<>>, Packages |-> <<>>, Bulletins |-> <<>>]

InFlight == {h \in ScanHostIDs : task[h] \in {"audit", "auditCancelled"}}

\* The signal handler (or the plugin's Stop) cancels the context.
Cancel ==
    /\ ~ctxDone
    /\ ctxDone' = TRUE
    /\ cancelAt' = IF scanPc = "running" /\ InFlight # {} THEN "audit"
                   ELSE IF pushPc = "settle" THEN "settle"
                   ELSE "elsewhere"
    /\ UNCHANGED <<aggregator, cfgWorkers, scanPc, scanHosts, task, taskEntry, semaphore, mu,
                   scanReturn, scansDone, scanAdded, pushVars, fixVars, otherVars>>

\* Scan is called and FetchHosts fails (always so when ctx is cancelled).
ScanFetchFails ==
    /\ scanPc \in {"idle", "returned"}
    /\ scansDone < MaxScans
    /\ scanPc' = "returned"
    /\ scansDone' = scansDone + 1
    /\ scanHosts' = {}
    /\ scanAdded' = <<>>
    /\ cancelAt' = "none"
    /\ task' = [h \in ScanHostIDs |-> "none"]
    /\ taskEntry' = [h \in ScanHostIDs |-> NoEntry]
    /\ scanReturn' = [results |-> "nil",
                      err |-> IF ctxDone THEN "failed to fetch hosts: context canceled"
                              ELSE "failed to fetch hosts"]
    /\ UNCHANGED <<aggregator, cfgWorkers, ctxDone, semaphore, mu, pushVars, fixVars, otherVars>>

\* Scan is called and FetchHosts returns no host: the early return.
ScanNoHosts ==
    /\ scanPc \in {"idle", "returned"}
    /\ scansDone < MaxScans
    /\ ~ctxDone
    /\ scanPc' = "returned"
    /\ scansDone' = scansDone + 1
    /\ scanHosts' = {}
    /\ scanAdded' = <<>>
    /\ cancelAt' = "none"
    /\ task' = [h \in ScanHostIDs |-> "none"]
    /\ taskEntry' = [h \in ScanHostIDs |-> NoEntry]
    /\ scanReturn' = [results |-> EmptyResults, err |-> "nil"]
    /\ UNCHANGED <<aggregator, cfgWorkers, ctxDone, semaphore, mu, pushVars, fixVars, otherVars>>

\* Scan is called, FetchHosts returns hosts: Reset, then one goroutine per host.
ScanStart ==
    /\ scanPc \in {"idle", "returned"}
    /\ scansDone < MaxScans
    /\ ~ctxDone
    /\ \E hs \in (SUBSET ScanHostIDs) \ {{}} :
          /\ scanHosts' = hs
          /\ task' = [h \in ScanHostIDs |-> IF h \in hs THEN "spawned" ELSE "none"]
    /\ scanPc' = "running"
    /\ scansDone' = scansDone + 1
    /\ scanAdded' = <<>>
    /\ cancelAt' = "none"
    /\ taskEntry' = [h \in ScanHostIDs |-> NoEntry]
    /\ aggregator' = Reset(aggregator)
    /\ semaphore' = 0
    /\ mu' = Free
    /\ scanReturn' = NoReturn
    /\ UNCHANGED <<cfgWorkers, ctxDone, pushVars, fixVars, otherVars>>

\* semaphore <- struct{}{}
TaskAcquire(h) ==
    /\ task[h] = "spawned"
    /\ SemaphoreHasRoom
    /\ semaphore' = semaphore + 1
    /\ task' = [task EXCEPT ![h] = "acquired"]
    /\ UNCHANGED <<aggregator, cfgWorkers, ctxDone, scanPc, scanHosts, taskEntry, mu,
                   scanReturn, scansDone, scanAdded, cancelAt, pushVars, fixVars, otherVars>>

\* scanHost calls LinuxAudit; a call made with a cancelled context can only fail.
TaskAuditStart(h) ==
    /\ task[h] = "acquired"
    /\ task' = [task EXCEPT ![h] = IF ctxDone THEN "auditCancelled" ELSE "audit"]
    /\ UNCHANGED <<aggregator, cfgWorkers, ctxDone, scanPc, scanHosts, taskEntry, semaphore, mu,
                   scanReturn, scansDone, scanAdded, cancelAt, pushVars, fixVars, otherVars>>

\* The audit call fails: scanHost returns the error, the goroutine logs and returns.
TaskAuditErr(h) ==
    /\ task[h] \in {"audit", "auditCancelled"}
    /\ task' = [task EXCEPT ![h] = "failed"]
    /\ UNCHANGED <<aggregator, cfgWorkers, ctxDone, scanPc, scanHosts, taskEntry, semaphore, mu,
                   scanReturn, scansDone, scanAdded, cancelAt, pushVars, fixVars, otherVars>>

\* The audit call succeeds (also when the cancellation came after the answer).
TaskAuditOk(h) ==
    /\ task[h] = "audit"
    /\ \E r \in AuditResults : taskEntry' = [taskEntry EXCEPT ![h] = scanHost(h, r)]
    /\ task' = [task EXCEPT ![h] = "entry"]
    /\ UNCHANGED <<aggregator, cfgWorkers, ctxDone, scanPc, scanHosts, semaphore, mu,
                   scanReturn, scansDone, scanAdded, cancelAt, pushVars, fixVars, otherVars>>

TaskLockWithoutMutex(h) ==
    /\ task[h] = "entry"
    /\ mu' = h
    /\ task' = [task EXCEPT ![h] = "locked"]
    /\ UNCHANGED <<aggregator, cfgWorkers, ctxDone, scanPc, scanHosts, taskEntry, semaphore,
                   scanReturn, scansDone, scanAdded, cancelAt, pushVars, fixVars, otherVars>>

\* mu.Lock()
TaskLock(h) ==
    /\ task[h] = "entry"
    /\ mu = Free
    /\ mu' = h
    /\ task' = [task EXCEPT ![h] = "locked"]
    /\ UNCHANGED <<aggregator, cfgWorkers, ctxDone, scanPc, scanHosts, taskEntry, semaphore,
                   scanReturn, scansDone, scanAdded, cancelAt, pushVars, fixVars, otherVars>>

\* s.aggregator.AddHost(*entry)
TaskAddHost(h) ==
    /\ task[h] = "locked"
    /\ aggregator' = AddHost(aggregator, taskEntry[h])
    /\ scanAdded' = Append(scanAdded, taskEntry[h])
    /\ task' = [task EXCEPT ![h] = "added"]
    /\ UNCHANGED <<cfgWorkers, ctxDone, scanPc, scanHosts, taskEntry, semaphore, mu,
                   scanReturn, scansDone, cancelAt, pushVars, fixVars, otherVars>>

\* mu.Unlock()
TaskUnlock(h) ==
    /\ task[h] = "added"
    /\ mu' = Free
    /\ task' = [task EXCEPT ![h] = "unlocked"]
    /\ UNCHANGED <<aggregator, cfgWorkers, ctxDone, scanPc, scanHosts, taskEntry, semaphore,
                   scanReturn, scansDone, scanAdded, cancelAt, pushVars, fixVars, otherVars>>

\* The deferred <-semaphore and wg.Done()
TaskRelease(h) ==
    /\ task[h] \in {"unlocked", "failed"}
    /\ semaphore' = semaphore - 1
    /\ task' = [task EXCEPT ![h] = "done"]
    /\ UNCHANGED <<aggregator, cfgWorkers, ctxDone, scanPc, scanHosts, taskEntry, mu,
                   scanReturn, scansDone, scanAdded, cancelAt, pushVars, fixVars, otherVars>>

\* wg.Wait() returns and the first host error is returned as the error of Scan.
ScanReturnPropagatesError ==
    /\ scanPc = "running"
    /\ \A h \in scanHosts : task[h] = "done"
    /\ \E r \in GetResults(aggregator) :
          scanReturn' = [results |-> r,
                         err |-> IF \E h \in scanHosts : taskEntry[h] = NoEntry
                                 THEN "vulners audit failed" ELSE "nil"]
    /\ scanPc' = "returned"
    /\ UNCHANGED <<aggregator, cfgWorkers, ctxDone, scanHosts, task, taskEntry, semaphore, mu,
                   scansDone, scanAdded, cancelAt, pushVars, fixVars, otherVars>>

\* wg.Wait() returns; return s.aggregator.GetResults(), nil
ScanReturn ==
    /\ scanPc = "running"
    /\ \A h \in scanHosts : task[h] = "done"
    /\ \E r \in GetResults(aggregator) : scanReturn' = [results |-> r, err |-> "nil"]
    /\ scanPc' = "returned"
    /\ UNCHANGED <<aggregator, cfgWorkers, ctxDone, scanHosts, task, taskEntry, semaphore, mu,
                   scansDone, scanAdded, cancelAt, pushVars, fixVars, otherVars>>

ScanInit ==
    /\ AggIdle /\ PushIdle /\ FixIdle /\ OtherIdle
    /\ cfgWorkers \in 0..MaxWorkers
    /\ ctxDone = FALSE
    /\ scanPc = "idle"
    /\ scanHosts = {}
    /\ task = [h \in ScanHostIDs |-> "none"]
    /\ taskEntry = [h \in ScanHostIDs |-> NoEntry]
    /\ semaphore = 0
    /\ mu = Free
    /\ scanReturn = NoReturn
    /\ scansDone = 0
    /\ scanAdded = <<>>
    /\ cancelAt = "none"

ScanNext ==
    \/ Cancel
    \/ ScanFetchFails
    \/ ScanNoHosts
    \/ ScanStart
    \/ \E h \in ScanHostIDs :
          \/ TaskAcquire(h)
          \/ TaskAuditStart(h)
          \/ TaskAuditErr(h)
          \/ TaskAuditOk(h)
          \/ TaskLock(h)
          \/ TaskAddHost(h)
          \/ TaskUnlock(h)
          \/ TaskRelease(h)
    \/ ScanReturn

SpecScan == ScanInit /\ [][ScanNext]_vars

-----------------------------------------------------------------------------
(* C3: during Scan, for any number of hosts, the number of host tasks with
   an audit call in flight is at every instant at most max(1, workers). *)
C3_BoundedAudits ==
    Cardinality(InFlight) <= (IF cfgWorkers >= 1 THEN cfgWorkers ELSE 1)

\* Every slot is taken by an audit in flight while another task waits for one.
C3_Witness ==
    /\ cfgWorkers = 2
    /\ Cardinality({h \in ScanHostIDs : task[h] = "audit"}) = 2
    /\ \E h \in ScanHostIDs : task[h] = "spawned"

\* Hosts of the running (or last) Scan whose audit call succeeded / failed
AuditSucceeded == {h \in scanHosts : taskEntry[h] # NoEntry}
AuditFailed == {h \in scanHosts : task[h] = "done" /\ taskEntry[h] = NoEntry}

(* C4: an audit-call failure for one host never fails the scan: Scan returns
   a nil error, the failing host is absent from the results, every host whose
   audit succeeded is in the results exactly once, and hosts_scanned is the
   number of hosts whose audit succeeded. *)
C4_HostFailureAbsorbed ==
    (scanPc = "returned" /\ scanHosts # {}) =>
        /\ scanReturn.err = "nil"
        /\ \A h \in AuditFailed :
              \A i \in 1..Len(scanReturn.results.Hosts) : scanReturn.results.Hosts[i].HostID # h
        /\ \A h \in AuditSucceeded :
              Cardinality({i \in 1..Len(scanReturn.results.Hosts) :
                              scanReturn.results.Hosts[i].HostID = h}) = 1
        /\ scanReturn.results.HostsScanned = Cardinality(AuditSucceeded)

\* A scan of three hosts returned with one audit failed and two succeeded.
C4_Witness ==
    /\ scanPc = "returned"
    /\ Cardinality(AuditFailed) = 1
    /\ Cardinality(AuditSucceeded) = 2
    /\ scanReturn.results.HostsScanned = 2

(* C5: when the context is cancelled while host audits are in progress, Scan
   returns an error that identifies the cancellation. *)
C5_CancelReturnsError ==
    (scanPc = "returned" /\ cancelAt = "audit") => scanReturn.err = "context canceled"

\* The aggregator a fresh one would hold after the AddHost calls of this Scan
RECURSIVE AddAll(_, _)
AddAll(a, entries) ==
    IF entries = <<>> THEN a ELSE AddAll(AddHost(a, Head(entries)), Tail(entries))

(* C6: the aggregator is reset at the start of every Scan call: after any
   Scan that fetched a host list (empty or not), the aggregator's hosts,
   packages and bulletins reflect only that Scan's inputs. *)
C6_ResetEveryScan ==
    (scanPc = "returned" /\ scanReturn.err = "nil") =>
        aggregator = AddAll(NewAggregator, scanAdded)

\* list holds, in the order of raw, exactly the findings of raw that score
\* at least min_cvss
KeepsFromMinCVSS(list, raw) ==
    LET kept == {i \in 1..Len(raw) : raw[i].Score >= MinCVSS}
    IN  /\ Len(list) = Cardinality(kept)
        /\ \A i \in 1..Len(list) :
              \E k \in kept : list[i] = raw[k] /\ Cardinality({j \in kept : j < k}) = i - 1

(* C21: every per-host package or bulletin entry handed to AddHost scores at
   least min_cvss, an entry scoring exactly min_cvss being kept, so that no
   package or bulletin aggregate of the results scores below min_cvss. *)
C21_FilteredBeforeAggregation ==
    /\ \A n \in 1..Len(scanAdded) :
          \E r \in AuditResults :
              /\ KeepsFromMinCVSS(scanAdded[n].Packages, r.Packages)
              /\ KeepsFromMinCVSS(scanAdded[n].Bulletins, r.Bulletins)
    /\ (scanPc = "returned" /\ scanReturn.err = "nil" /\ scanHosts # {}) =>
          /\ \A i \in 1..Len(scanReturn.results.Packages) :
                scanReturn.results.Packages[i].Score >= MinCVSS
          /\ \A i \in 1..Len(scanReturn.results.Bulletins) :
                scanReturn.results.Bulletins[i].Score >= MinCVSS

\* A returned scan whose host had findings below, at and above min_cvss: the
\* results hold the package scoring exactly min_cvss and not the one below.
C21_Witness ==
    /\ scanPc = "returned"
    /\ Len(scanAdded) = 1
    /\ Len(scanAdded[1].Packages) = 2
    /\ \E i \in 1..Len(scanReturn.results.Packages) :
          scanReturn.results.Packages[i].Score = MinCVSS
    /\ \A i \in 1..Len(scanReturn.results.Packages) :
          scanReturn.results.Packages[i].Name # "curl"

\* Host tasks between mu.Lock() and mu.Unlock(): inside or about to enter AddHost
InAddHost == {h \in ScanHostIDs : task[h] \in {"locked", "added"}}

(* C24: during Scan at most one host task executes AddHost at any time, and
   no task holds the aggregator mutex while an audit call of that task is in
   flight. *)
C24_AddHostSerialised ==
    /\ Cardinality(InAddHost) <= 1
    /\ \A h \in ScanHostIDs : h \in InAddHost <=> mu = h
    /\ \A h \in InFlight : mu # h

\* One task is inside AddHost while another, its entry built, waits for the
\* mutex.
C24_Witness ==
    /\ \E h \in ScanHostIDs : task[h] = "locked" /\ mu = h
    /\ \E h \in ScanHostIDs : task[h] = "entry"

\* Between two states no host task that had not started its audit call
\* starts one while the context is cancelled
NoAuditStartsOnceCancelled ==
    \A h \in ScanHostIDs :
        (ctxDone /\ task[h] \in {"spawned", "acquired"}) =>
            task'[h] \notin {"audit", "auditCancelled"}

(* C25: cancellation is honoured at every host boundary: once the context
   passed to Scan is cancelled, a host task that has not yet started its
   audit call never starts one. *)
C25_NoAuditAfterCancel == [][NoAuditStartsOnceCancelled]_vars

\* The orders in which the same host entries can reach AddHost
Orderings(entries) ==
    LET n == Len(entries)
    IN  { [i \in 1..n |-> entries[q[i]]] :
            q \in {f \in [1..n -> 1..n] : \A i, k \in 1..n : f[i] = f[k] => i = k} }

\* The package aggregates of a and b agree on score, affected hosts and bulletins
SamePackageAggregates(a, b) ==
    /\ DOMAIN a.packages = DOMAIN b.packages
    /\ \A key \in DOMAIN a.packages :
          /\ a.packages[key].Score = b.packages[key].Score
          /\ Range(a.packages[key].AffectedHosts) = Range(b.packages[key].AffectedHosts)
          /\ Range(a.packages[key].Bulletins) = Range(b.packages[key].Bulletins)

\* The bulletin aggregates of a and b agree on score, affected hosts and packages
SameBulletinAggregates(a, b) ==
    /\ DOMAIN a.bulletins = DOMAIN b.bulletins
    /\ \A id \in DOMAIN a.bulletins :
          /\ a.bulletins[id].Score = b.bulletins[id].Score
          /\ Range(a.bulletins[id].AffectedHosts) = Range(b.bulletins[id].AffectedHosts)
          /\ Range(a.bulletins[id].AffectedPkgs) = Range(b.bulletins[id].AffectedPkgs)

SameCVESets(a, b) ==
    \A id \in (DOMAIN a.bulletins) \cap (DOMAIN b.bulletins) :
        Range(a.bulletins[id].CVEs) = Range(b.bulletins[id].CVEs)

(* C28: the aggregates do not depend on the order in which the host entries
   reach AddHost: for any two orderings of the same entries every package and
   bulletin aggregate has the same score, the same set of affected hosts, the
   same bulletin and affected-package sets and the same CVE set. *)
C28_OrderIndependent ==
    \A order \in Orderings(aggregator.hosts) :
        LET other == AddAll(NewAggregator, order)
        IN  /\ SamePackageAggregates(other, aggregator)
            /\ SameBulletinAggregates(other, aggregator)
            /\ SameCVESets(other, aggregator)

\* All of it but the CVE sets, which the code does satisfy.
C28_OrderIndependentButCVEs ==
    \A order \in Orderings(aggregator.hosts) :
        LET other == AddAll(NewAggregator, order)
        IN  /\ SamePackageAggregates(other, aggregator)
            /\ SameBulletinAggregates(other, aggregator)

-----------------------------------------------------------------------------
(* Scanner.PushResults (internal/scanner/scanner.go) and Sender.SendBatch
   (internal/zabbix/sender.go) *)

\* The results handed to PushResults, by the lengths of their three lists
\* (1001 hosts need two batches).
PushInputs ==
    { [Hosts |-> 0, Packages |-> 0, Bulletins |-> 0],
      [Hosts |-> 1, Packages |-> 2, Bulletins |-> 1],
      [Hosts |-> 1001, Packages |-> 1, Bulletins |-> 0] }

LLDStages == <<"hostsLLD", "packagesLLD", "bulletinsLLD">>
ValueStages == <<"hostScores", "packageScores", "bulletinScores", "statistics">>

IsLLDStage(pc) == pc \in Range(LLDStages)
IsValueStage(pc) == pc \in Range(ValueStages)

\* len(items) of the list the value stage hands to SendBatch;
\* GenerateStatisticsData returns 15 keys and 11 histogram buckets.
ItemCount(stage, results) ==
    CASE stage = "hostScores"     -> results.Hosts
      [] stage = "packageScores"  -> results.Packages
      [] stage = "bulletinScores" -> results.Bulletins
      [] stage = "statistics"     -> 15 + 11

AfterDiscoveryNoWait == "hostScores"

\* if s.cfg.Scan.LLDDelay > 0 { select ... }
AfterDiscovery == IF lldDelay > 0 THEN "settle" ELSE "hostScores"

NextStage(pc) ==
    CASE pc = "hostsLLD"       -> "packagesLLD"
      [] pc = "packagesLLD"    -> "bulletinsLLD"
      [] pc = "bulletinsLLD"   -> AfterDiscovery
      [] pc = "hostScores"     -> "packageScores"
      [] pc = "packageScores"  -> "bulletinScores"
      [] pc = "bulletinScores" -> "statistics"
      [] pc = "statistics"     -> "returned"

\* The error PushResults wraps a failed send of the stage in
SendError(pc) ==
    CASE pc = "hostsLLD"       -> "failed to send hosts LLD"
      [] pc = "packagesLLD"    -> "failed to send packages LLD"
      [] pc = "bulletinsLLD"   -> "failed to send bulletins LLD"
      [] pc = "hostScores"     -> "failed to send host scores"
      [] pc = "packageScores"  -> "failed to send package scores"
      [] pc = "bulletinScores" -> "failed to send bulletin scores"
      [] pc = "statistics"     -> "failed to send statistics"

Min(a, b) == IF a < b THEN a ELSE b

\* PushResults is called.
PushCall ==
    /\ pushPc = "idle"
    /\ pushPc' = "hostsLLD"
    /\ UNCHANGED <<lldDelay, pushResults, batchI, sent, elapsed, pushReturn,
                   aggVars, scanVars, fixVars, otherVars>>

\* SendLLD of the stage succeeds (one zabbix_sender run with one value).
PushSendLLD ==
    /\ IsLLDStage(pushPc)
    /\ sent' = Append(sent, [kind |-> pushPc, from |-> 0, to |-> 1])
    /\ pushPc' = NextStage(pushPc)
    /\ elapsed' = 0
    /\ UNCHANGED <<lldDelay, pushResults, batchI, pushReturn, aggVars, scanVars, fixVars, otherVars>>

\* One Send of the loop of SendBatch succeeds.
PushSendBatch ==
    /\ IsValueStage(pushPc)
    /\ batchI < ItemCount(pushPc, pushResults)
    /\ sent' = Append(sent, [kind |-> pushPc, from |-> batchI,
                             to |-> Min(batchI + batchSize, ItemCount(pushPc, pushResults))])
    /\ batchI' = batchI + batchSize
    /\ UNCHANGED <<lldDelay, pushPc, pushResults, elapsed, pushReturn,
                   aggVars, scanVars, fixVars, otherVars>>

\* SendBatch returns nil: the list was empty or the loop is over.
PushBatchDone ==
    /\ IsValueStage(pushPc)
    /\ batchI >= ItemCount(pushPc, pushResults)
    /\ batchI' = 0
    /\ pushPc' = NextStage(pushPc)
    /\ pushReturn' = IF pushPc = "statistics" THEN "nil" ELSE pushReturn
    /\ UNCHANGED <<lldDelay, pushResults, sent, elapsed, aggVars, scanVars, fixVars, otherVars>>

\* zabbix_sender fails, the error is kept and the publish goes on with the next stage.
PushSendFailsGoesOn ==
    /\ \/ IsLLDStage(pushPc)
       \/ IsValueStage(pushPc) /\ batchI < ItemCount(pushPc, pushResults)
    /\ pushReturn' = SendError(pushPc)
    /\ pushPc' = NextStage(pushPc)
    /\ batchI' = 0
    /\ UNCHANGED <<lldDelay, pushResults, sent, elapsed, aggVars, scanVars, fixVars, otherVars>>

\* zabbix_sender fails: the send is not done and PushResults returns the wrapped error.
PushSendFails ==
    /\ \/ IsLLDStage(pushPc)
       \/ IsValueStage(pushPc) /\ batchI < ItemCount(pushPc, pushResults)
    /\ pushReturn' = SendError(pushPc)
    /\ pushPc' = "returned"
    /\ UNCHANGED <<lldDelay, pushResults, batchI, sent, elapsed, aggVars, scanVars, fixVars, otherVars>>

\* The settle wait goes on with the cancelled context: time.Sleep instead of select.
PushSettleIgnoresCancel ==
    /\ pushPc = "settle"
    /\ ctxDone
    /\ pushPc' = "hostScores"
    /\ elapsed' = lldDelay
    /\ UNCHANGED <<lldDelay, pushResults, batchI, sent, pushReturn, aggVars, scanVars, fixVars, otherVars>>

\* case <-ctx.Done(): return ctx.Err(). The select takes this case when the
\* context is cancelled on entry or is cancelled before the timer fires.
PushSettleCancelled ==
    /\ pushPc = "settle"
    /\ ctxDone
    /\ pushReturn' = "context canceled"
    /\ pushPc' = "returned"
    /\ UNCHANGED <<lldDelay, pushResults, batchI, sent, elapsed, aggVars, scanVars, fixVars, otherVars>>

\* A second of the settle wait passes; case <-time.After(...) is taken when
\* the last one has passed.
PushSettleTick ==
    /\ pushPc = "settle"
    /\ ~ctxDone
    /\ elapsed < lldDelay
    /\ elapsed' = elapsed + 1
    /\ pushPc' = IF elapsed + 1 = lldDelay THEN "hostScores" ELSE "settle"
    /\ UNCHANGED <<lldDelay, pushResults, batchI, sent, pushReturn, aggVars, scanVars, fixVars, otherVars>>

PushInit ==
    /\ AggIdle /\ FixIdle /\ OtherIdle
    /\ cfgWorkers = 1
    /\ ctxDone = FALSE
    /\ scanPc = "idle"
    /\ scanHosts = {}
    /\ task = [h \in ScanHostIDs |-> "none"]
    /\ taskEntry = [h \in ScanHostIDs |-> NoEntry]
    /\ semaphore = 0
    /\ mu = Free
    /\ scanReturn = NoReturn
    /\ scansDone = 0
    /\ scanAdded = <<>>
    /\ cancelAt = "none"
    /\ lldDelay \in 0..MaxDelay
    /\ pushPc = "idle"
    /\ pushResults \in PushInputs
    /\ batchI = 0
    /\ sent = <<>>
    /\ elapsed = 0
    /\ pushReturn = "none"

PushNext ==
    \/ Cancel
    \/ PushCall
    \/ PushSendLLD
    \/ PushSendBatch
    \/ PushBatchDone
    \/ PushSendFails
    \/ PushSettleCancelled
    \/ PushSettleTick

SpecPush == PushInit /\ [][PushNext]_vars

ValueSends == {i \in 1..Len(sent) : IsValueStage(sent[i].kind)}

(* C1: in PushResults no value batch (host scores, package counts, bulletin
   counts, statistics) is submitted before the three discovery payloads
   (hosts, then packages, then bulletins) have been submitted successfully
   and, when lld_delay > 0, before the whole lld_delay settle wait that
   follows them has elapsed. *)
C1_ValuesAfterDiscoveryAndSettle ==
    \A i \in ValueSends :
        /\ i > 3
        /\ <<sent[1].kind, sent[2].kind, sent[3].kind>> = LLDStages
        /\ lldDelay > 0 => elapsed = lldDelay

\* A value batch went out after a settle wait of two seconds.
C1_Witness ==
    /\ lldDelay = 2
    /\ elapsed = 2
    /\ ValueSends # {}
    /\ pushPc = "returned"
    /\ pushReturn = "nil"

(* C2: if the context is cancelled while PushResults is in the settle wait
   between the two phases, PushResults returns the cancellation error and
   performs no value submission at all. *)
C2_CancelInSettle ==
    cancelAt = "settle" =>
        /\ ValueSends = {}
        /\ \/ pushPc = "settle"
           \/ pushPc = "returned" /\ pushReturn = "context canceled"

\* Cancelled one second into a wait of two; PushResults returned the cancellation.
C2_Witness ==
    /\ cancelAt = "settle"
    /\ lldDelay = 2
    /\ elapsed = 1
    /\ pushPc = "returned"
    /\ pushReturn = "context canceled"
    /\ Len(sent) = 3

\* Position of a stage in the order PushResults runs them
StageIndex(stage) ==
    CHOOSE k \in 1..7 : (LLDStages \o ValueStages)[k] = stage

\* The stages a send error can name
SendStages == Range(LLDStages) \cup Range(ValueStages)

\* The sends made so far follow the fixed order: stages in the order of
\* PushResults, the batches of a value list contiguous from item 0.
SendsInOrder ==
    \A i \in 1..Len(sent) :
        /\ i > 1 => StageIndex(sent[i - 1].kind) <= StageIndex(sent[i].kind)
        /\ sent[i].from = IF i > 1 /\ sent[i - 1].kind = sent[i].kind THEN sent[i - 1].to ELSE 0

\* PushResults returned the error of a failed send of stage st: nothing of a
\* later stage was sent, and stage st itself was not sent to its end.
ShortCircuitAt(st) ==
    /\ pushPc = "returned"
    /\ \A i \in 1..Len(sent) : StageIndex(sent[i].kind) <= StageIndex(st)
    /\ IsLLDStage(st) => \A i \in 1..Len(sent) : sent[i].kind # st
    /\ IsValueStage(st) =>
          \A i \in 1..Len(sent) : sent[i].kind = st => sent[i].to < ItemCount(st, pushResults)

PublishShortCircuits ==
    /\ SendsInOrder
    /\ \A st \in SendStages : pushReturn = SendError(st) => ShortCircuitAt(st)

(* C12: the sends of a publish happen one at a time in a fixed order; as
   soon as one send fails PushResults returns an error wrapping that failure
   and performs none of the later sends, the remaining batches of a long
   value list included. *)
C12_SendFailureShortCircuits ==
    /\ []PublishShortCircuits
    /\ [][pushPc = "returned" => sent' = sent /\ pushReturn' = pushReturn]_vars

\* The second batch of 1001 host scores failed after the first was sent.
C12_Witness ==
    /\ pushResults.Hosts = 1001
    /\ pushPc = "returned"
    /\ pushReturn = SendError("hostScores")
    /\ Len(sent) = 4
    /\ sent[4] = [kind |-> "hostScores", from |-> 0, to |-> batchSize]

-----------------------------------------------------------------------------
(* SpecFix: Fixer.Plan (internal/fixer) against the hosts and the discovery
   payloads held by the monitor *)

\* cfg.Naming: technical names of the four virtual hosts
Naming ==
    [HostsHost |-> "vulners.hosts", PackagesHost |-> "vulners.packages",
     BulletinsHost |-> "vulners.bulletins", StatisticsHost |-> "vulners.statistics"]

\* The agent interface ensureVirtualHost creates on every virtual host
LoopbackInterface ==
    [Type |-> "1", Main |-> "1", UseIP |-> "1", IP |-> "127.0.0.1",
     DNS |-> "zabbix.example.com", Port |-> "10050"]

ZabbixHost(id, host, name, ifaces) ==
    [HostID |-> id, Host |-> host, Name |-> name, Interfaces |-> ifaces]

\* The hosts of the monitor after `prepare`: three monitored hosts linked to
\* the OS-Report template (an IP interface, a DNS-only interface, none) and
\* the four virtual hosts.
ZabbixHosts ==
    { ZabbixHost("1", "alpha", VisibleName("1"),
                 <<[Type |-> "1", Main |-> "1", UseIP |-> "1", IP |-> "10.0.0.1",
                    DNS |-> "", Port |-> "10050"]>>),
      ZabbixHost("2", "beta", VisibleName("2"),
                 <<[Type |-> "1", Main |-> "1", UseIP |-> "0", IP |-> "",
                    DNS |-> "beta.example.com", Port |-> "10051"]>>),
      ZabbixHost("3", "gamma", VisibleName("3"), <<>>),
      ZabbixHost("101", Naming.HostsHost, "Vulners - Hosts", <<LoopbackInterface>>),
      ZabbixHost("102", Naming.PackagesHost, "Vulners - Packages", <<LoopbackInterface>>),
      ZabbixHost("103", Naming.BulletinsHost, "Vulners - Bulletins", <<LoopbackInterface>>),
      ZabbixHost("104", Naming.StatisticsHost, "Vulners - Statistics", <<LoopbackInterface>>) }

\* Last value of system.sw.os on a host; "" where the item has none
HostOS(hostID) ==
    CASE hostID = "1" -> "Ubuntu 22.04"
      [] hostID = "2" -> "CentOS Linux 7"
      [] hostID = "3" -> "Amazon Linux 2"
      [] OTHER -> ""

\* The monitor API methods a Plan call uses; each may fail for the whole call
ApiMethods == {"host.get", "item.get"}

ApiResult(value, err) == [value |-> value, err |-> err]

GetHostByIDCtx(hostID, fails) ==
    IF "host.get" \in fails THEN ApiResult("nil", "failed to get host")
    ELSE IF \E h \in ZabbixHosts : h.HostID = hostID
         THEN ApiResult(CHOOSE h \in ZabbixHosts : h.HostID = hostID, "nil")
         ELSE ApiResult("nil", "host not found")

GetHostByNameCtx(name, fails) ==
    IF "host.get" \in fails THEN ApiResult("nil", "failed to get host")
    ELSE IF \E h \in ZabbixHosts : h.Host = name
         THEN ApiResult(CHOOSE h \in ZabbixHosts : h.Host = name, "nil")
         ELSE ApiResult("nil", "host not found")

\* lld holds the last values of the two discovery items.
GetItemValueCtx(hostTechName, itemKey, lld, fails) ==
    IF "host.get" \in fails THEN ApiResult(EmptyValue, "failed to get host")
    ELSE IF ~ \E h \in ZabbixHosts : h.Host = hostTechName
         THEN ApiResult(EmptyValue, "host not found")
    ELSE IF "item.get" \in fails THEN ApiResult(EmptyValue, "failed to get items")
    ELSE IF hostTechName = Naming.PackagesHost /\ itemKey = "vulners.packages_lld"
         THEN ApiResult(lld.packages, "nil")
    ELSE IF hostTechName = Naming.BulletinsHost /\ itemKey = "vulners.bulletins_lld"
         THEN ApiResult(lld.bulletins, "nil")
    ELSE ApiResult(EmptyValue, "nil")

\* strings.Join(ids, ","): a comma-separated string is kept as the list of its
\* comma-free fields, the empty string as the empty list.
Join(elems) == elems

\* strings.Split(s, ","): never called on "" here; Split("") is one empty field.
Split(s) == IF s = <<>> THEN <<"">> ELSE s

\* strings.Fields(raw)[0] for the package strings "name version arch"
FirstField(raw) ==
    CASE raw = "openssl 1.1.1 amd64" -> "openssl"
      [] raw = "curl 7.68 amd64" -> "curl"
      [] OTHER -> raw

GeneratePackagesLLD(packages) ==
    [i \in 1..Len(packages) |->
        ("{#P.NAME}" :> packages[i].Name) @@
        ("{#P.HOSTS}" :> Join(packages[i].AffectedHosts)) @@
        ("{#P.AFFECTED}" :> Len(packages[i].AffectedHosts))]

GenerateBulletinsLLD(bulletins) ==
    [i \in 1..Len(bulletins) |->
        ("{#B.ID}" :> bulletins[i].ID) @@
        ("{#B.HOSTS}" :> Join(bulletins[i].AffectedHosts)) @@
        ("{#B.PKGS}" :> Join(bulletins[i].AffectedPkgs))]

appendUniqueStr(slice, s) ==
    IF \E i \in 1..Len(slice) : slice[i] = s THEN slice ELSE Append(slice, s)

RECURSIVE PackagesOfHost(_, _, _)
PackagesOfHost(entries, hostID, packages) ==
    IF entries = <<>> THEN packages
    ELSE LET entry    == Head(entries)
             hostsStr == entry["{#P.HOSTS}"]
             found    == hostsStr # <<>> /\ hostID \in Range(Split(hostsStr))
             name     == entry["{#P.NAME}"]
         IN  PackagesOfHost(Tail(entries), hostID,
                            IF found /\ name # "" THEN appendUniqueStr(packages, name)
                            ELSE packages)

getVulnerablePackages(hostID, lld, fails) ==
    LET r == GetItemValueCtx(Naming.PackagesHost, "vulners.packages_lld", lld, fails)
    IN  IF r.err # "nil" \/ r.value.empty THEN <<>>
        ELSE PackagesOfHost(r.value.data, hostID, <<>>)

\* (address, port) of the first interface among ifaces that has an address
RECURSIVE FirstAddress(_, _)
FirstAddress(ifaces, mainOnly) ==
    IF ifaces = <<>> THEN <<"", "">>
    ELSE LET iface == Head(ifaces)
         IN  IF mainOnly /\ iface.UseIP = "1" /\ iface.IP # "" THEN <<iface.IP, iface.Port>>
             ELSE IF mainOnly /\ iface.DNS # "" THEN <<iface.DNS, iface.Port>>
             ELSE IF ~mainOnly /\ iface.IP # "" THEN <<iface.IP, iface.Port>>
             ELSE IF ~mainOnly /\ iface.DNS # "" THEN <<iface.DNS, iface.Port>>
             ELSE FirstAddress(Tail(ifaces), mainOnly)

getHostAddress(host) ==
    LET agent == SelectSeq(host.Interfaces, LAMBDA i : i.Main = "1" /\ i.Type = "1")
        main  == SelectSeq(host.Interfaces, LAMBDA i : i.Main = "1")
    IN  IF FirstAddress(agent, TRUE)[1] # "" THEN FirstAddress(agent, TRUE)
        ELSE IF FirstAddress(main, TRUE)[1] # "" THEN FirstAddress(main, TRUE)
        ELSE FirstAddress(host.Interfaces, FALSE)

getHostOS(hostID, fails) == IF "item.get" \in fails THEN "" ELSE HostOS(hostID)

Digits == {"0", "1", "2", "3", "4", "5", "6", "7", "8", "9"}

Letters ==
    {"a", "b", "c", "d", "e", "f", "g", "h", "i", "j", "k", "l", "m", "n", "o", "p", "q",
     "r", "s", "t", "u", "v", "w", "x", "y", "z", "A", "B", "C", "D", "E", "F", "G", "H",
     "I", "J", "K", "L", "M", "N", "O", "P", "Q", "R", "S", "T", "U", "V", "W", "X", "Y", "Z"}

UpperLetters == <<"A", "B", "C", "D", "E", "F", "G", "H", "I", "J", "K", "L", "M", "N", "O", "P", "Q", "R", "S", "T", "U", "V", "W", "X", "Y", "Z">>

LowerLetters == <<"a", "b", "c", "d", "e", "f", "g", "h", "i", "j", "k", "l", "m", "n", "o", "p", "q", "r", "s", "t", "u", "v", "w", "x", "y", "z">>

\* strings.ToLower
ToLowerChars(s) ==
    [i \in 1..Len(s) |->
        IF \E k \in 1..26 : UpperLetters[k] = s[i]
        THEN LowerLetters[CHOOSE k \in 1..26 : UpperLetters[k] = s[i]]
        ELSE s[i]]

\* strings.Contains
ContainsChars(s, substr) ==
    \E i \in 1..(Len(s) - Len(substr) + 1) : SubSeq(s, i, i + Len(substr) - 1) = substr

\* The characters of the strings of the model
Chars(str) ==
    CASE str = "openssl" -> <<"o", "p", "e", "n", "s", "s", "l">>
      [] str = "curl" -> <<"c", "u", "r", "l">>
      [] str = "libc6:amd64" -> <<"l", "i", "b", "c", "6", ":", "a", "m", "d", "6", "4">>
      [] str = "$(bad)" -> <<"$", "(", "b", "a", "d", ")">>
      [] str = "-rf" -> <<"-", "r", "f">>
      [] str = "a b" -> <<"a", " ", "b">>
      [] str = "Ubuntu 22.04" -> <<"U", "b", "u", "n", "t", "u", " ", "2", "2", ".", "0", "4">>
      [] str = "CentOS Linux 7" -> <<"C", "e", "n", "t", "O", "S", " ", "L", "i", "n", "u", "x", " ", "7">>
      [] str = "Amazon Linux 2" -> <<"A", "m", "a", "z", "o", "n", " ", "L", "i", "n", "u", "x", " ", "2">>
      [] str = "Red Hat Enterprise Linux 8" -> <<"R", "e", "d", " ", "H", "a", "t", " ", "E", "n", "t", "e", "r", "p", "r", "i", "s", "e", " ", "L", "i", "n", "u", "x", " ", "8">>
      [] str = "Debian GNU/Linux 12" -> <<"D", "e", "b", "i", "a", "n", " ", "G", "N", "U", "/", "L", "i", "n", "u", "x", " ", "1", "2">>
      [] str = "Alpine Linux 3.19" -> <<"A", "l", "p", "i", "n", "e", " ", "L", "i", "n", "u", "x", " ", "3", ".", "1", "9">>
      [] str = "ubuntu" -> <<"u", "b", "u", "n", "t", "u">>
      [] str = "debian" -> <<"d", "e", "b", "i", "a", "n">>
      [] str = "centos" -> <<"c", "e", "n", "t", "o", "s">>
      [] str = "red hat" -> <<"r", "e", "d", " ", "h", "a", "t">>
      [] str = "redhat" -> <<"r", "e", "d", "h", "a", "t">>
      [] str = "rhel" -> <<"r", "h", "e", "l">>
      [] str = "amazon" -> <<"a", "m", "a", "z", "o", "n">>
      [] OTHER -> <<>>

\* packageNameRe = ^[a-zA-Z0-9][a-zA-Z0-9._+:~-]*$
packageNameRe(name) ==
    /\ name # <<>>
    /\ name[1] \in Letters \cup Digits
    /\ \A i \in 2..Len(name) : name[i] \in Letters \cup Digits \cup {".", "_", "+", ":", "~", "-"}

ValidatePackageName(name) ==
    /\ Chars(name) # <<>>
    /\ Len(Chars(name)) <= 256
    /\ packageNameRe(Chars(name))

SanitizePackagesFirstOnly(packages) == packages = <<>> \/ ValidatePackageName(packages[1])

SanitizePackages(packages) == \A i \in 1..Len(packages) : ValidatePackageName(packages[i])

RECURSIVE quotePackages(_)
quotePackages(packages) ==
    IF packages = <<>> THEN ""
    ELSE IF Len(packages) = 1 THEN "'" \o packages[1] \o "'"
    ELSE "'" \o Head(packages) \o "' " \o quotePackages(Tail(packages))

generateDebianFixCommand(packages) ==
    IF Len(packages) = 0 THEN "apt-get update && apt-get upgrade -y"
    ELSE "apt-get update && apt-get install -y --only-upgrade " \o quotePackages(packages)

generateRHELFixCommand(packages) ==
    IF Len(packages) = 0 THEN "yum update -y"
    ELSE "yum update -y " \o quotePackages(packages)

generateAmazonFixCommand(packages) ==
    IF Len(packages) = 0 THEN "yum update -y"
    ELSE "yum update -y " \o quotePackages(packages)

ToLower(osName) == ToLowerChars(Chars(osName))

Contains(s, substr) == ContainsChars(s, Chars(substr))

GenerateFixCommand(osName, pkgs) ==
    LET packages == IF SanitizePackages(pkgs) THEN pkgs ELSE <<>>
        os       == ToLower(osName)
    IN  IF Contains(os, "ubuntu") \/ Contains(os, "debian")
            THEN generateDebianFixCommand(packages)
        ELSE IF Contains(os, "centos") \/ Contains(os, "red hat")
                \/ Contains(os, "redhat") \/ Contains(os, "rhel")
            THEN generateRHELFixCommand(packages)
        ELSE IF Contains(os, "amazon") THEN generateAmazonFixCommand(packages)
        ELSE generateDebianFixCommand(packages)

HostFixPlan(hostID, host, addr, packages, command) ==
    [HostID |-> hostID, Name |-> host.Name, IP |-> addr[1], AgentPort |-> addr[2],
     Packages |-> packages, Command |-> command]

PlanResult(plan, err) == [plan |-> plan, err |-> err]

planForHost(hostID, lld, fails) ==
    LET h        == GetHostByIDCtx(hostID, fails)
        packages == getVulnerablePackages(hostID, lld, fails)
        addr     == getHostAddress(h.value)
        command  == GenerateFixCommand(getHostOS(hostID, fails), packages)
    IN  IF h.err # "nil" THEN PlanResult(NilPlan, "failed to get host")
        ELSE IF addr[1] = "" THEN PlanResult(NilPlan, "no IP address found for host")
        ELSE PlanResult(HostFixPlan(hostID, h.value, addr, packages, command), "nil")

\* The entry of bulletinID in the bulletins payload: affected host IDs and
\* package names, or an error.
RECURSIVE BulletinEntry(_, _)
BulletinEntry(entries, bulletinID) ==
    IF entries = <<>> THEN [hostIDs |-> <<>>, pkgs |-> <<>>, err |-> "bulletin not found in LLD data"]
    ELSE LET entry == Head(entries)
         IN  IF entry["{#B.ID}"] # bulletinID THEN BulletinEntry(Tail(entries), bulletinID)
             ELSE [hostIDs |-> IF entry["{#B.HOSTS}"] # <<>> THEN Split(entry["{#B.HOSTS}"])
                               ELSE <<>>,
                   pkgs    |-> IF entry["{#B.PKGS}"] # <<>>
                               THEN FirstSeen([i \in 1..Len(Split(entry["{#B.PKGS}"])) |->
                                                  FirstField(Split(entry["{#B.PKGS}"])[i])])
                               ELSE <<>>,
                   err     |-> "nil"]

getBulletinInfo(bulletinID, lld, fails) ==
    LET r == GetItemValueCtx(Naming.BulletinsHost, "vulners.bulletins_lld", lld, fails)
    IN  IF r.err # "nil" THEN [hostIDs |-> <<>>, pkgs |-> <<>>, err |-> "failed to get bulletins LLD"]
        ELSE IF r.value.empty THEN [hostIDs |-> <<>>, pkgs |-> <<>>, err |-> "no bulletins LLD data found"]
        ELSE BulletinEntry(r.value.data, bulletinID)

\* The loop of planForBulletin over the affected host IDs
RECURSIVE BulletinHostPlans(_, _, _, _, _)
BulletinHostPlans(hostIDs, pkgSet, lld, fails, hosts) ==
    IF hostIDs = <<>> THEN hosts
    ELSE LET hostID   == Head(hostIDs)
             h        == GetHostByIDCtx(hostID, fails)
             packages == FirstSeen(SelectSeq(getVulnerablePackages(hostID, lld, fails),
                                             LAMBDA pkg : pkg \in pkgSet))
             addr     == getHostAddress(h.value)
             command  == GenerateFixCommand(getHostOS(hostID, fails), packages)
         IN  BulletinHostPlans(Tail(hostIDs), pkgSet, lld, fails,
                 IF h.err # "nil" \/ Len(packages) = 0 \/ addr[1] = "" THEN hosts
                 ELSE Append(hosts, HostFixPlan(hostID, h.value, addr, packages, command)))

planForBulletin(bulletinID, lld, fails) ==
    LET info == getBulletinInfo(bulletinID, lld, fails)
    IN  IF info.err # "nil" THEN PlanResult(NilPlan, "failed to get bulletin info")
        ELSE PlanResult([nil |-> FALSE, Hosts |-> BulletinHostPlans(info.hostIDs, Range(info.pkgs),
                                                     lld, fails, <<>>)], "nil")

isVirtualHost(name) ==
    name \in {Naming.HostsHost, Naming.PackagesHost, Naming.BulletinsHost,
              Naming.StatisticsHost}

\* isVirtualHost applied to the host the name or the ID designates
isVirtualHostTarget(opts) ==
    \E h \in ZabbixHosts : /\ isVirtualHost(h.Host)
                           /\ \/ opts.HostName = h.Host
                              \/ opts.HostID = h.HostID

Plan(opts, lld, fails) ==
    LET resolved == GetHostByNameCtx(opts.HostName, fails)
        HostID   == IF opts.HostName # "" /\ opts.HostID = "" /\ resolved.err = "nil"
                    THEN resolved.value.HostID ELSE opts.HostID
        hostPlan == planForHost(HostID, lld, fails)
    IN  IF opts.HostName # "" /\ isVirtualHost(opts.HostName)
            THEN PlanResult(NilPlan, "virtual host, refusing to fix")
        ELSE IF opts.HostName # "" /\ opts.HostID = "" /\ resolved.err # "nil"
            THEN PlanResult(NilPlan, "failed to resolve host name")
        ELSE IF HostID # ""
            THEN IF hostPlan.err # "nil" THEN PlanResult(NilPlan, hostPlan.err)
                 ELSE PlanResult([nil |-> FALSE, Hosts |-> <<hostPlan.plan>>], "nil")
        ELSE IF opts.BulletinID # "" THEN planForBulletin(opts.BulletinID, lld, fails)
        ELSE PlanResult(NilPlan, "either --host, --host-name, or --bulletin must be specified")

\* The inventories a scan can have aggregated: each host added at most once
ScannedEntries ==
    {<<>>} \cup {<<e>> : e \in HostEntries}
           \cup {es \in {<<e1, e2>> : e1 \in HostEntries, e2 \in HostEntries} :
                     es[1].HostID # es[2].HostID}

\* The discovery payloads on the virtual hosts: none before the first push,
\* otherwise those PushResults generates from the results of a scan.
PublishedLLDs ==
    {[packages |-> EmptyValue, bulletins |-> EmptyValue]} \cup
    { [packages |-> LLDJSON(GeneratePackagesLLD(r.Packages)),
        bulletins |-> LLDJSON(GenerateBulletinsLLD(r.Bulletins))] :
        r \in UNION {GetResults(AddAll(NewAggregator, es)) : es \in ScannedEntries} }

\* The FixOptions of one run of the fix command: --host, --host-name, --bulletin
FixOptionsSet ==
    [HostID : {"", "1", "3", "102", "999"},
     HostName : {"", "alpha", "gamma", Naming.PackagesHost, "unknown"},
     BulletinID : {"", "USN-1", "USN-9"}]

\* The one Plan call of a run of the fix command
FixPlan ==
    \E opts \in FixOptionsSet, fails \in SUBSET ApiMethods :
        /\ fixReturn = NoPlanReturn
        /\ fixOpts' = opts
        /\ fixFails' = fails
        /\ fixReturn' = Plan(opts, fixLLD, fails)
        /\ UNCHANGED <<fixLLD, aggVars, scanVars, pushVars, otherVars>>

FixInit ==
    /\ AggIdle /\ ScanIdle /\ PushIdle /\ OtherIdle
    /\ fixLLD \in PublishedLLDs
    /\ fixOpts = NoFixOptions
    /\ fixReturn = NoPlanReturn
    /\ fixFails = {}

FixNext == FixPlan

SpecFix == FixInit /\ [][FixNext]_vars

PlannedHostIDs ==
    IF fixReturn.plan.nil THEN {}
    ELSE {fixReturn.plan.Hosts[i].HostID : i \in 1..Len(fixReturn.plan.Hosts)}

(* C10: whatever the FixOptions (host ID, host technical name, bulletin),
   Plan never returns a plan that contains one of the four virtual hosts, and
   a request that designates a virtual host returns an error and no plan, so
   that no command is generated for it. *)
C10_NeverPlansVirtualHost ==
    fixReturn # NoPlanReturn =>
        /\ \A h \in ZabbixHosts : h.HostID \in PlannedHostIDs => ~isVirtualHost(h.Host)
        /\ isVirtualHostTarget(fixOpts) => fixReturn.plan.nil /\ fixReturn.err # "nil"

-----------------------------------------------------------------------------
(* SpecExec: Fixer.executeOnHost for one host of a plan: ExecuteWithRetry
   around ExecuteViaAgent or ExecuteViaSSH (internal/fixer).  The strings the
   validators inspect are held as sequences of one-character strings. *)

DigitValue(c) ==
    CASE c = "0" -> 0 [] c = "1" -> 1 [] c = "2" -> 2 [] c = "3" -> 3 [] c = "4" -> 4
      [] c = "5" -> 5 [] c = "6" -> 6 [] c = "7" -> 7 [] c = "8" -> 8 [] c = "9" -> 9

\* strings.Split(s, sep) for a one-character separator
RECURSIVE SplitChars(_, _)
SplitChars(s, sep) ==
    IF \A i \in 1..Len(s) : s[i] # sep THEN <<s>>
    ELSE LET k == CHOOSE i \in 1..Len(s) : s[i] = sep /\ \A j \in 1..(i - 1) : s[j] # sep
         IN  <<SubSeq(s, 1, k - 1)>> \o SplitChars(SubSeq(s, k + 1, Len(s)), sep)

RECURSIVE DecimalValue(_)
DecimalValue(field) ==
    IF field = <<>> THEN 0
    ELSE 10 * DecimalValue(SubSeq(field, 1, Len(field) - 1)) + DigitValue(field[Len(field)])

\* One field of a dotted-decimal IPv4 address: 1 to 3 digits, no leading
\* zero, at most 255
IPv4Field(field) ==
    /\ Len(field) \in 1..3
    /\ \A i \in 1..Len(field) : field[i] \in Digits
    /\ Len(field) > 1 => field[1] # "0"
    /\ DecimalValue(field) <= 255

\* net.ParseIP(target) != nil, for targets without ':' (no IPv6 literal)
ParseIP(target) ==
    LET fields == SplitChars(target, ".")
    IN  /\ Len(fields) = 4
        /\ \A i \in 1..4 : IPv4Field(fields[i])

\* fqdnRe: ^[a-zA-Z0-9]([a-zA-Z0-9.-]{0,251}[a-zA-Z0-9])?$
fqdnRe(s) ==
    /\ Len(s) \in 1..253
    /\ s[1] \in Letters \cup Digits
    /\ s[Len(s)] \in Letters \cup Digits
    /\ \A i \in 1..Len(s) : s[i] \in Letters \cup Digits \cup {".", "-"}

isValidFQDN(s) ==
    /\ Len(s) <= 253
    /\ fqdnRe(s)
    /\ LET labels == SplitChars(s, ".")
       IN  \A i \in 1..Len(labels) : Len(labels[i]) \in 1..63

\* TRUE when ValidateHostTarget returns nil
ValidateHostTargetAcceptsAll(target) == TRUE

ValidateHostTarget(target) ==
    /\ target # <<>>
    /\ ParseIP(target) \/ isValidFQDN(target)

\* sshUserRe: ^[a-zA-Z_][a-zA-Z0-9._-]*$
sshUserRe(user) ==
    /\ Len(user) >= 1
    /\ user[1] \in Letters \cup {"_"}
    /\ \A i \in 2..Len(user) : user[i] \in Letters \cup Digits \cup {".", "_", "-"}

\* TRUE when ValidateSSHUser returns nil
ValidateSSHUser(user) ==
    /\ user # <<>>
    /\ Len(user) <= 64
    /\ sshUserRe(user)

\* The literal maxRetries argument of executeOnHost
maxRetries == 2

\* plan.IP of the host plan
ExecTargets ==
    { <<"1", "0", ".", "0", ".", "0", ".", "1">>,
      <<"d", "b", "-", "1", ".", "l", "a", "n">>,
      <<>>,
      <<"1", ";", "r", "m">>,
      <<"-", "o", "X">>,
      <<"a", ".", ".", "b">>,
      <<"h", "_", "1">> }

\* opts.SSHUser
ExecUsers ==
    { <<>>, <<"r", "o", "o", "t">>, <<"o", "p", "s", "_", "1">>, <<"-", "l">>, <<"a", " ", "b">> }

\* sshUser := opts.SSHUser, "root" when empty (Execute)
sshUserOf(optsUser) == IF optsUser = <<>> THEN <<"r", "o", "o", "t">> ELSE optsUser

\* What fn() does before it builds its exec.Cmd: "" when the validators pass
FnValidationError(in) ==
    IF ~ValidateHostTarget(in.HostIP) THEN "invalid host"
    ELSE IF in.UseSSH /\ ~ValidateSSHUser(sshUserOf(in.SSHUser)) THEN "invalid SSH user"
    ELSE ""

\* After a failed call of fn: wait and retry, or give up with lastErr
AfterFailure(err) ==
    IF execI < maxRetries
    THEN /\ execPc' = "backoff"
         /\ execResult' = [Success |-> FALSE, Error |-> err]
    ELSE /\ execPc' = "returned"
         /\ execResult' = [Success |-> FALSE, Error |-> err]

\* executeOnHost is called and enters ExecuteWithRetry
ExecCall ==
    /\ execPc = "idle"
    /\ execPc' = "call"
    /\ execI' = 0
    /\ UNCHANGED <<execIn, execAttempts, execSpawned, execWaits, execResult, coreVars, hmVars, lateVars>>

\* fn() returns a validation error; no exec.Cmd is built
ExecFnRejected ==
    /\ execPc = "call"
    /\ FnValidationError(execIn) # ""
    /\ execAttempts' = execAttempts + 1
    /\ AfterFailure(FnValidationError(execIn))
    /\ UNCHANGED <<execIn, execI, execSpawned, execWaits, coreVars, hmVars, lateVars>>

\* fn() runs zabbix_get or ssh; cmd.Run() returns nil or an error
ExecFnRun ==
    /\ execPc = "call"
    /\ FnValidationError(execIn) = ""
    /\ execAttempts' = execAttempts + 1
    /\ execSpawned' = Append(execSpawned, IF execIn.UseSSH THEN "ssh" ELSE "zabbix_get")
    /\ \/ /\ execPc' = "returned"
          /\ execResult' = [Success |-> TRUE, Error |-> ""]
       \/ AfterFailure(IF execIn.UseSSH THEN "SSH failed" ELSE "zabbix_get failed")
    /\ UNCHANGED <<execIn, execI, execWaits, coreVars, hmVars, lateVars>>

\* time.After((i+1) * time.Second) fires; the loop goes to its next round
ExecBackoff ==
    /\ execPc = "backoff"
    /\ execWaits' = Append(execWaits, execI + 1)
    /\ execI' = execI + 1
    /\ execPc' = "call"
    /\ UNCHANGED <<execIn, execAttempts, execSpawned, execResult, coreVars, hmVars, lateVars>>

ExecInit ==
    /\ AggIdle /\ ScanIdle /\ PushIdle /\ FixIdle /\ MatrixIdle /\ LateIdle
    /\ execPc = "idle"
    /\ execIn \in [UseSSH : BOOLEAN, HostIP : ExecTargets, SSHUser : ExecUsers]
    /\ execI = 0
    /\ execAttempts = 0
    /\ execSpawned = <<>>
    /\ execWaits = <<>>
    /\ execResult = NoExecResult

ExecNext ==
    \/ ExecCall
    \/ ExecFnRejected
    \/ ExecFnRun
    \/ ExecBackoff

SpecExec == ExecInit /\ [][ExecNext]_vars

(* C11: the remediation command of a host is attempted at most two times in
   total, on the agent path and on the SSH path alike, and the wait before
   each further attempt grows linearly with the attempts already made. *)
C11_AtMostTwoAttempts ==
    /\ execAttempts <= 2
    /\ \A k \in 1..Len(execWaits) : execWaits[k] = k

\* Host targets that are neither an IP address nor a DNS name
InvalidTargets ==
    { <<>>, <<"1", ";", "r", "m">>, <<"-", "o", "X">>, <<"a", ".", ".", "b">>, <<"h", "_", "1">> }

\* SSH users outside the user-name pattern
InvalidUsers == { <<"-", "l">>, <<"a", " ", "b">> }

(* C14: validation fails closed before any subprocess spawn: with a host
   target that is neither an IP nor a DNS name (agent or SSH path), or with an
   invalid SSH user on the SSH path, no subprocess is ever spawned and every
   attempt returns a validation error. *)
C14_ValidationBeforeSpawn ==
    (execIn.HostIP \in InvalidTargets \/ (execIn.UseSSH /\ execIn.SSHUser \in InvalidUsers)) =>
        /\ execSpawned = <<>>
        /\ execAttempts > 0 =>
              /\ ~execResult.Success
              /\ execResult.Error \in {"invalid host", "invalid SSH user"}

\* All attempts were made on the SSH path with a valid target and an invalid
\* user, and none spawned ssh.
C14_Witness ==
    /\ execIn.UseSSH
    /\ execIn.HostIP = <<"1", "0", ".", "0", ".", "0", ".", "1">>
    /\ execIn.SSHUser = <<"-", "l">>
    /\ execPc = "returned"
    /\ execAttempts = maxRetries + 1
    /\ execSpawned = <<>>
    /\ execResult.Error = "invalid SSH user"

-----------------------------------------------------------------------------
(* SpecMatrix: HostMatrix.FetchHosts (internal/scanner/hostmatrix.go) over
   the item values of the monitored hosts, followed by the audits of the
   hosts it returned.  Item values are sequences of one-character strings. *)

\* strings.Fields, for values whose only white space is the blank
Fields(s) == SelectSeq(SplitChars(s, " "), LAMBDA w : w # <<>>)

\* strings.TrimSpace
RECURSIVE TrimSpace(_)
TrimSpace(s) ==
    IF s = <<>> THEN s
    ELSE IF Head(s) = " " THEN TrimSpace(Tail(s))
    ELSE IF s[Len(s)] = " " THEN TrimSpace(SubSeq(s, 1, Len(s) - 1))
    ELSE s

\* strings.Join(words, " ")
RECURSIVE JoinWords(_)
JoinWords(words) ==
    IF words = <<>> THEN <<>>
    ELSE IF Len(words) = 1 THEN words[1]
    ELSE words[1] \o <<" ">> \o JoinWords(Tail(words))

\* Index of the first version-like token of parts, Len(parts) + 1 if none
FirstVersionToken(parts) ==
    IF \E k \in 1..Len(parts) : parts[k][1] \in Digits
    THEN CHOOSE k \in 1..Len(parts) :
            parts[k][1] \in Digits /\ \A j \in 1..(k - 1) : parts[j][1] \notin Digits
    ELSE Len(parts) + 1

parseOSInfo(osInfo) ==
    LET parts == Fields(TrimSpace(osInfo))
        k     == FirstVersionToken(parts)
    IN  IF Len(parts) = 0 THEN [name |-> <<>>, version |-> <<>>]
        ELSE [name    |-> ToLowerChars(JoinWords(SubSeq(parts, 1, k - 1))),
              version |-> IF k <= Len(parts) THEN parts[k] ELSE <<>>]

\* The value holds its lines, already split at the newlines
parsePackageList(lines) ==
    SelectSeq([i \in 1..Len(lines) |-> TrimSpace(lines[i])], LAMBDA line : line # <<>>)

NormalizeOSName(osName) ==
    LET os == ToLowerChars(osName)
    IN  IF ContainsChars(os, <<"u", "b", "u", "n", "t", "u">>) THEN <<"u", "b", "u", "n", "t", "u">>
        ELSE IF ContainsChars(os, <<"d", "e", "b", "i", "a", "n">>) THEN <<"d", "e", "b", "i", "a", "n">>
        ELSE IF ContainsChars(os, <<"c", "e", "n", "t", "o", "s">>) THEN <<"c", "e", "n", "t", "o", "s">>
        ELSE IF ContainsChars(os, <<"r", "e", "d", " ", "h", "a", "t">>) \/ ContainsChars(os, <<"r", "h", "e", "l">>) THEN <<"r", "e", "d", "h", "a", "t">>
        ELSE IF ContainsChars(os, <<"a", "m", "a", "z", "o", "n">>) THEN <<"a", "m", "a", "z", "o", "n">>
        ELSE IF ContainsChars(os, <<"o", "r", "a", "c", "l", "e">>) THEN <<"o", "r", "a", "c", "l", "e", "l", "i", "n", "u", "x">>
        ELSE IF ContainsChars(os, <<"s", "u", "s", "e">>) THEN <<"s", "u", "s", "e">>
        ELSE IF ContainsChars(os, <<"f", "e", "d", "o", "r", "a">>) THEN <<"f", "e", "d", "o", "r", "a">>
        ELSE IF ContainsChars(os, <<"a", "l", "p", "i", "n", "e">>) THEN <<"a", "l", "p", "i", "n", "e">>
        ELSE IF ContainsChars(os, <<"a", "r", "c", "h">>) THEN <<"a", "r", "c", "h">>
        ELSE os

ExtractOSVersion(osVersion) ==
    IF Len(Fields(osVersion)) > 0 THEN Fields(osVersion)[1] ELSE osVersion

validateHostDataAllowsFive(osVersion, packages) ==
    IF osVersion = <<"0", ".", "0">> THEN "OS version 0.0"
    ELSE IF Len(packages) < 5 THEN "too few packages"
    ELSE IF \E i \in 1..Len(packages) : ContainsChars(packages[i], <<"r", "e", "p", "o", "r", "t", ".", "p", "y">>)
         THEN "report.py in packages"
    ELSE ""

\* "" when the host is valid for scanning, else the reason of the exclusion
validateHostData(osVersion, packages) ==
    IF osVersion = <<"0", ".", "0">> THEN "OS version 0.0"
    ELSE IF Len(packages) <= 5 THEN "too few packages"
    ELSE IF \E i \in 1..Len(packages) : ContainsChars(packages[i], <<"r", "e", "p", "o", "r", "t", ".", "p", "y">>)
         THEN "report.py in packages"
    ELSE ""

\* Last values of system.sw.os: none, a release with its version, version
\* 0.0, a name without version, a value that starts with its version
OSValues ==
    { <<>>,
      <<"U", "b", "u", "n", "t", "u", " ", "2", "0", ".", "0", "4", " ", "L", "T", "S">>,
      <<"L", "i", "n", "u", "x", " ", "0", ".", "0">>,
      <<"D", "e", "b", "i", "a", "n">>,
      <<"7", ".", "9", " ", "C", "o", "r", "e">> }

\* Last values of system.sw.packages, as lines: none, six packages, five
\* packages, five packages and two blank lines, six of which one is the
\* report script
PackageValues ==
    { <<>>,
      <<<<"a", " ", "1">>, <<"b", " ", "1">>, <<"c", " ", "1">>, <<"d", " ", "1">>, <<"e", " ", "1">>, <<"f", " ", "1">>>>,
      <<<<"a", " ", "1">>, <<"b", " ", "1">>, <<"c", " ", "1">>, <<"d", " ", "1">>, <<"e", " ", "1">>>>,
      <<<<"a", " ", "1">>, <<"b", " ", "1">>, <<"c", " ", "1">>, <<>>, <<" ", " ">>, <<"d", " ", "1">>, <<"e", " ", "1">>>>,
      <<<<"a", " ", "1">>, <<"b", " ", "1">>, <<"c", " ", "1">>, <<"d", " ", "1">>, <<"e", " ", "1">>, <<"/", "x", "/", "r", "e", "p", "o", "r", "t", ".", "p", "y">>>> }

\* The hosts GetHostsWithTemplateCtx returns, in its order
MatrixHosts == <<"1", "2">>

HostData(h, osName, osVersion, packages) ==
    [Host |-> h, OSName |-> osName, OSVersion |-> osVersion, Packages |-> packages]

NoHostData == HostData("nil", <<>>, <<>>, <<>>)

\* fetchHostData when both item reads succeed: the host data, or NoHostData
\* for (nil, nil)
fetchHostData(h, items) ==
    LET os       == IF items.os # <<>> THEN parseOSInfo(items.os)
                    ELSE [name |-> <<>>, version |-> <<>>]
        packages == IF items.pkgs # <<>> THEN parsePackageList(items.pkgs) ELSE <<>>
        osName    == NormalizeOSName(os.name)
        osVersion == ExtractOSVersion(os.version)
    IN  IF os.name = <<>> THEN NoHostData
        ELSE IF Len(packages) = 0 THEN NoHostData
        ELSE IF validateHostData(osVersion, packages) # "" THEN NoHostData
        ELSE HostData(h, osName, osVersion, packages)

\* One round of the loop of FetchHosts: fetchHostData of the next host
\* returns its data or excludes it.
HmFetchHostData ==
    /\ hmPc = "fetch"
    /\ hmIndex <= Len(MatrixHosts)
    /\ LET data == fetchHostData(MatrixHosts[hmIndex], hmItems[MatrixHosts[hmIndex]])
       IN  hmData' = IF data = NoHostData THEN hmData ELSE Append(hmData, data)
    /\ hmIndex' = hmIndex + 1
    /\ hmPc' = IF hmIndex = Len(MatrixHosts) THEN "scan" ELSE "fetch"
    /\ UNCHANGED <<hmItems, hmAudited, hmScanned, coreVars, execVars, lateVars>>

\* One round of the loop of FetchHosts: an item read fails, the host is
\* logged and skipped.
HmFetchFails ==
    /\ hmPc = "fetch"
    /\ hmIndex <= Len(MatrixHosts)
    /\ hmIndex' = hmIndex + 1
    /\ hmPc' = IF hmIndex = Len(MatrixHosts) THEN "scan" ELSE "fetch"
    /\ UNCHANGED <<hmItems, hmData, hmAudited, hmScanned, coreVars, execVars, lateVars>>

\* scanHost of a returned host reaches LinuxAudit; on success its entry is
\* added and counts in hosts_scanned.
HmAudit ==
    /\ hmPc = "scan"
    /\ \E i \in 1..Len(hmData) :
          /\ hmData[i] \notin Range(hmAudited)
          /\ hmAudited' = Append(hmAudited, hmData[i])
    /\ \E ok \in BOOLEAN : hmScanned' = IF ok THEN hmScanned + 1 ELSE hmScanned
    /\ UNCHANGED <<hmItems, hmPc, hmIndex, hmData, coreVars, execVars, lateVars>>

\* wg.Wait() returns and Scan returns the results
HmReturn ==
    /\ hmPc = "scan"
    /\ Range(hmData) = Range(hmAudited)
    /\ hmPc' = "returned"
    /\ UNCHANGED <<hmItems, hmIndex, hmData, hmAudited, hmScanned, coreVars, execVars, lateVars>>

MatrixInit ==
    /\ AggIdle /\ ScanIdle /\ PushIdle /\ FixIdle /\ ExecIdle /\ LateIdle
    /\ hmItems \in [Range(MatrixHosts) -> [os : OSValues, pkgs : PackageValues]]
    /\ hmPc = "fetch"
    /\ hmIndex = 1
    /\ hmData = <<>>
    /\ hmAudited = <<>>
    /\ hmScanned = 0

MatrixNext ==
    \/ HmFetchHostData
    \/ HmFetchFails
    \/ HmAudit
    \/ HmReturn

SpecMatrix == MatrixInit /\ [][MatrixNext]_vars

\* The non-blank lines of a packages value
PackageLines(lines) == {i \in 1..Len(lines) : \E k \in 1..Len(lines[i]) : lines[i][k] # " "}

(* C13: every host that reaches the audit call is eligible: its OS name is
   non-empty, its OS version is not "0.0", it has more than 5 package lines
   and none of them contains "report.py"; a host failing any of these (one
   with exactly 5 packages, say) is never audited and is not counted in
   hosts_scanned. *)
C13_OnlyEligibleAudited ==
    /\ \A i \in 1..Len(hmAudited) :
          LET d == hmAudited[i]
          IN  /\ d.OSName # <<>>
              /\ d.OSVersion # <<"0", ".", "0">>
              /\ Len(d.Packages) > 5
              /\ Cardinality(PackageLines(hmItems[d.Host].pkgs)) > 5
              /\ \A k \in 1..Len(d.Packages) :
                    ~ContainsChars(d.Packages[k], <<"r", "e", "p", "o", "r", "t", ".", "p", "y">>)
    /\ hmScanned <= Len(hmAudited)
    /\ \A h \in Range(MatrixHosts) :
          Cardinality(PackageLines(hmItems[h].pkgs)) <= 5 =>
              \A i \in 1..Len(hmAudited) : hmAudited[i].Host # h

\* Host 1 is eligible and was scanned; host 2 has exactly five packages (and
\* two blank lines) and the scan returned without auditing it.
C13_Witness ==
    /\ hmPc = "returned"
    /\ hmScanned = 1
    /\ Len(hmAudited) = 1
    /\ hmAudited[1].Host = "1"
    /\ hmItems["2"].os = hmItems["1"].os
    /\ Len(hmItems["2"].pkgs) = 7
    /\ Cardinality(PackageLines(hmItems["2"].pkgs)) = 5

-----------------------------------------------------------------------------
(* SpecStats: Aggregator.GetStatistics after any sequence of AddHost calls
   with hosts of differing scores.  A quotient of two floats is held as the
   exact fraction [num, den]. *)

MaxStatHosts == 4

\* Host scores in tenths: 0, 0.5, 7.5, 9.9 and 10.0
StatScoreValues == {0, 5, 75, 99, 100}

StatHostIDs == <<"1", "2", "3", "4", "5", "6">>

\* sort.Float64s
RECURSIVE SortedScores(_)
SortedScores(scores) ==
    IF scores = <<>> THEN <<>>
    ELSE LET k == CHOOSE i \in 1..Len(scores) : \A j \in 1..Len(scores) : scores[i] <= scores[j]
         IN  <<scores[k]>> \o SortedScores(SubSeq(scores, 1, k - 1) \o SubSeq(scores, k + 1, Len(scores)))

StatScoresPositiveOnly(a) ==
    SelectSeq([i \in 1..Len(a.hosts) |-> a.hosts[i].Score], LAMBDA s : s > 0)

\* scores: the scores of all hosts, in the order of a.hosts
StatScores(a) == [i \in 1..Len(a.hosts) |-> a.hosts[i].Score]

RECURSIVE SumSeq(_)
SumSeq(s) == IF s = <<>> THEN 0 ELSE Head(s) + SumSeq(Tail(s))

BucketRoundsToNearest(score) ==
    LET bucket == (score + 5) \div 10
    IN  IF bucket > 10 THEN 10 ELSE IF bucket < 0 THEN 0 ELSE bucket

\* bucket := int(host.Score), clamped to 0..10
Bucket(score) ==
    LET bucket == IF score >= 0 THEN score \div 10 ELSE -((-score) \div 10)
    IN  IF bucket > 10 THEN 10 ELSE IF bucket < 0 THEN 0 ELSE bucket

\* stats.Histogram after the loop over the hosts
RECURSIVE HistogramOf(_, _)
HistogramOf(scores, hist) ==
    IF scores = <<>> THEN hist
    ELSE HistogramOf(Tail(scores), [hist EXCEPT ![Bucket(Head(scores))] = @ + 1])

RECURSIVE MaxScoreOf(_, _)
MaxScoreOf(scores, max) ==
    IF scores = <<>> THEN max
    ELSE MaxScoreOf(Tail(scores), IF Head(scores) > max THEN Head(scores) ELSE max)

Fraction(num, den) == [num |-> num, den |-> den]

\* The CVEs of all bulletin aggregates
CveSet(a) == UNION {Range(a.bulletins[id].CVEs) : id \in DOMAIN a.bulletins}

GetStatistics(a) ==
    LET scores == StatScores(a)
        sorted == SortedScores(scores)
        n      == Len(scores)
        mid    == n \div 2
    IN  [TotalHosts      |-> Len(a.hosts),
         TotalPackages   |-> Cardinality(DOMAIN a.packages),
         TotalBulletins  |-> Cardinality(DOMAIN a.bulletins),
         VulnerableHosts |-> Cardinality({i \in 1..Len(a.hosts) : a.hosts[i].Score > 0}),
         MaxCVSS         |-> MaxScoreOf([i \in 1..Len(a.hosts) |-> a.hosts[i].Score], 0),
         Histogram       |-> HistogramOf([i \in 1..Len(a.hosts) |-> a.hosts[i].Score],
                                         [b \in 0..10 |-> 0]),
         TotalCVEs       |-> Cardinality(CveSet(a)),
         AvgCVSS         |-> IF n > 0 THEN Fraction(SumSeq(scores), n) ELSE Fraction(0, 1),
         MinCVSS         |-> IF n > 0 THEN sorted[1] ELSE 0,
         MedianCVSS      |-> IF n = 0 THEN Fraction(0, 1)
                             ELSE IF n % 2 = 0 THEN Fraction(sorted[mid] + sorted[mid + 1], 2)
                             ELSE Fraction(sorted[mid + 1], 1)]

\* AddHost of the entry of a host without findings above min_cvss, or with
\* the score the audit gave it
StatsAddHost ==
    /\ Len(aggregator.hosts) < MaxStatHosts
    /\ \E score \in StatScoreValues :
          aggregator' = AddHost(aggregator,
                                [HostID |-> StatHostIDs[Len(aggregator.hosts) + 1],
                                 Name |-> StatHostIDs[Len(aggregator.hosts) + 1],
                                 Score |-> score, Packages |-> <<>>, Bulletins |-> <<>>])
    /\ UNCHANGED <<scanVars, pushVars, fixVars, otherVars>>

StatsInit == AggIdle /\ ScanIdle /\ PushIdle /\ FixIdle /\ OtherIdle

StatsNext == StatsAddHost

SpecStats == StatsInit /\ [][StatsNext]_vars

\* The scores of all added hosts
AllScores == [i \in 1..Len(aggregator.hosts) |-> aggregator.hosts[i].Score]

\* x is the k-th smallest of the scores s
IsKthSmallest(s, k, x) ==
    /\ \E i \in 1..Len(s) : s[i] = x
    /\ Cardinality({i \in 1..Len(s) : s[i] < x}) < k
    /\ Cardinality({i \in 1..Len(s) : s[i] <= x}) >= k

KthSmallest(s, k) == CHOOSE x \in Range(s) : IsKthSmallest(s, k, x)

(* C19: GetStatistics computes minimum, median and average over the scores
   of all added hosts, score-0 hosts included (the median is the mean of the
   two middle scores when the number of hosts is even), and vulnerable_hosts
   counts exactly the hosts whose score is strictly positive. *)
C19_StatisticsOverAllHosts ==
    LET stats == GetStatistics(aggregator)
        s     == AllScores
        n     == Len(s)
    IN  /\ stats.VulnerableHosts = Cardinality({i \in 1..n : s[i] > 0})
        /\ n > 0 =>
              /\ stats.MinCVSS \in Range(s) /\ \A i \in 1..n : stats.MinCVSS <= s[i]
              /\ stats.AvgCVSS.num * n = SumSeq(s) * stats.AvgCVSS.den
              /\ n % 2 = 1 =>
                    stats.MedianCVSS.num = KthSmallest(s, (n + 1) \div 2) * stats.MedianCVSS.den
              /\ n % 2 = 0 =>
                    stats.MedianCVSS.num * 2 =
                        (KthSmallest(s, n \div 2) + KthSmallest(s, n \div 2 + 1))
                            * stats.MedianCVSS.den

\* Four hosts with scores 0, 0, 7.5 and 10.0 in some order: minimum 0,
\* median 3.75, average 4.375, two vulnerable hosts.
C19_Witness ==
    /\ Len(aggregator.hosts) = 4
    /\ SortedScores(AllScores) = <<0, 0, 75, 100>>
    /\ AllScores[1] = 100
    /\ GetStatistics(aggregator).MinCVSS = 0
    /\ GetStatistics(aggregator).MedianCVSS = Fraction(75, 2)
    /\ GetStatistics(aggregator).AvgCVSS = Fraction(175, 4)
    /\ GetStatistics(aggregator).VulnerableHosts = 2

(* C20: after any sequence of AddHost calls every host is counted in exactly
   one histogram bucket, the integer floor of its score clamped to 0..10, so
   that the eleven buckets sum to total_hosts. *)
C20_HistogramTotality ==
    LET stats == GetStatistics(aggregator)
    IN  /\ DOMAIN stats.Histogram = 0..10
        /\ \A b \in 0..10 :
              stats.Histogram[b] =
                  Cardinality({i \in 1..Len(AllScores) :
                                  /\ 10 * b <= AllScores[i]
                                  /\ b < 10 => AllScores[i] < 10 * (b + 1)})
        /\ SumSeq([k \in 1..11 |-> stats.Histogram[k - 1]]) = stats.TotalHosts
        /\ stats.TotalHosts = Len(aggregator.hosts)

\* Scores 0.5, 7.5, 9.9 and 10.0 fall into buckets 0, 7, 9 and 10.
C20_Witness ==
    /\ AllScores = <<5, 75, 99, 100>>
    /\ GetStatistics(aggregator).Histogram[0] = 1
    /\ GetStatistics(aggregator).Histogram[7] = 1
    /\ GetStatistics(aggregator).Histogram[9] = 1
    /\ GetStatistics(aggregator).Histogram[10] = 1

-----------------------------------------------------------------------------
(* SpecCmd: one call of Executor.GenerateFixCommand
   (internal/fixer/executor.go) on an OS name and a list of package names. *)

MaxCmdPackages == 2

\* Package names: three that match packageNameRe, and "$(bad)", "-rf", "a b"
\* and the empty name, which do not
CmdPackageNames == {"openssl", "curl", "libc6:amd64", "$(bad)", "-rf", "a b", ""}

CmdPackageLists == UNION {[1..n -> CmdPackageNames] : n \in 0..MaxCmdPackages}

\* OS names as the OS item reports them; "" when the item could not be read
CmdOSNames ==
    {"Ubuntu 22.04", "Debian GNU/Linux 12", "CentOS Linux 7", "Red Hat Enterprise Linux 8",
     "Amazon Linux 2", "Alpine Linux 3.19", ""}

CmdGenerateFixCommand ==
    /\ cmdPc = "called"
    /\ cmdCommand' = GenerateFixCommand(cmdOs, cmdPackages)
    /\ cmdPc' = "returned"
    /\ UNCHANGED <<cmdOs, cmdPackages, verVars, provVars, cacheVars, rdVars, coreVars, execVars, hmVars, tailVars>>

CmdInit ==
    /\ AggIdle /\ ScanIdle /\ PushIdle /\ FixIdle /\ ExecIdle /\ MatrixIdle /\ VerIdle /\ ProvIdle /\ CacheIdle /\ TailIdle
    /\ cmdPc = "called"
    /\ cmdOs \in CmdOSNames
    /\ cmdPackages \in CmdPackageLists
    /\ cmdCommand = ""

CmdNext == CmdGenerateFixCommand

SpecCmd == CmdInit /\ [][CmdNext]_vars

\* The given names, each in single quotes, separated by blanks
RECURSIVE QuotedNames(_)
QuotedNames(pkgs) ==
    IF Len(pkgs) = 1 THEN "'" \o pkgs[1] \o "'"
    ELSE QuotedNames(SubSeq(pkgs, 1, Len(pkgs) - 1)) \o " '" \o pkgs[Len(pkgs)] \o "'"

\* The OS names for which the command is an apt-get command
AptFamily == {"Ubuntu 22.04", "Debian GNU/Linux 12", "Alpine Linux 3.19", ""}

FullSystemUpdate(os) ==
    IF os \in AptFamily THEN "apt-get update && apt-get upgrade -y" ELSE "yum update -y"

(* C15: if any name of the list given to GenerateFixCommand violates the
   package-name pattern, the command names no package and is the full-system
   update of the OS family; if every name passes, the command names exactly
   the given packages. *)
C15_InvalidNameFailsOpen ==
    cmdPc = "returned" =>
        IF \E i \in 1..Len(cmdPackages) : ~ValidatePackageName(cmdPackages[i])
        THEN cmdCommand = FullSystemUpdate(cmdOs)
        ELSE IF cmdPackages = <<>> THEN cmdCommand = FullSystemUpdate(cmdOs)
        ELSE cmdCommand =
                 (IF cmdOs \in AptFamily
                  THEN "apt-get update && apt-get install -y --only-upgrade "
                  ELSE "yum update -y ") \o QuotedNames(cmdPackages)

\* A valid name followed by an invalid one on a CentOS host: plain yum update.
C15_Witness ==
    /\ cmdPc = "returned"
    /\ cmdOs = "CentOS Linux 7"
    /\ cmdPackages = <<"openssl", "$(bad)">>
    /\ cmdCommand = "yum update -y"

-----------------------------------------------------------------------------
(* SpecVer: the version-aware branches of ensureVulnersTemplate and
   createTriggerPrototypes (internal/zabbix/dashboard.go) on a monitor that
   has no Vulners template yet.  The version string is a sequence of
   one-character strings; a float64 is held as the exact decimal fraction
   [num, den] it was parsed from. *)

MaxMinor == 12

VerMajors == 4..7

VerPatches == {<<>>, <<".", "0">>, <<".", "1", "0">>}

\* strconv.Itoa for naturals below 100
Itoa(n) ==
    LET digit(d) == CHOOSE c \in Digits : DigitValue(c) = d
    IN  IF n < 10 THEN <<digit(n)>> ELSE <<digit(n \div 10), digit(n % 10)>>

\* The version strings apiinfo.version may report: major.minor[.patch]
ApiVersions ==
    {Itoa(major) \o <<".">> \o Itoa(minor) \o patch :
        major \in VerMajors, minor \in 0..MaxMinor, patch \in VerPatches}

RECURSIVE JoinChars(_, _)
JoinChars(parts, sep) ==
    IF parts = <<>> THEN <<>>
    ELSE IF Len(parts) = 1 THEN parts[1]
    ELSE parts[1] \o <<sep>> \o JoinChars(Tail(parts), sep)

\* strings.SplitN(s, sep, n) for n > 0
SplitN(s, sep, n) ==
    LET parts == SplitChars(s, sep)
    IN  IF Len(parts) <= n THEN parts
        ELSE SubSeq(parts, 1, n - 1) \o <<JoinChars(SubSeq(parts, n, Len(parts)), sep)>>

RECURSIVE Pow10(_)
Pow10(k) == IF k = 0 THEN 1 ELSE 10 * Pow10(k - 1)

\* strconv.ParseFloat of "digits.digits"; 0 on a syntax error
ParseFloat(s) ==
    LET parts == SplitChars(s, ".")
    IN  IF /\ Len(parts) = 2
           /\ parts[1] # <<>> \/ parts[2] # <<>>
           /\ \A i \in 1..Len(parts[1]) : parts[1][i] \in Digits
           /\ \A i \in 1..Len(parts[2]) : parts[2][i] \in Digits
        THEN [num |-> DecimalValue(parts[1]) * Pow10(Len(parts[2])) + DecimalValue(parts[2]),
              den |-> Pow10(Len(parts[2]))]
        ELSE [num |-> 0, den |-> 1]

getAPIVersionFloat(version) ==
    LET parts == SplitN(version, ".", 3)
    IN  IF Len(parts) >= 2 THEN ParseFloat(parts[1] \o <<".">> \o parts[2])
        ELSE [num |-> 0, den |-> 1]

\* v < tenths / 10
FloatLess(v, tenths) == v.num * 10 < tenths * v.den

\* ensureVulnersTemplate: the template does not exist; the template-group
\* endpoints are used when the version is at least 6.2
VerEnsureVulnersTemplate ==
    /\ verPc = "template"
    /\ verTemplateGroup' = ~FloatLess(getAPIVersionFloat(apiVersion), 62)
    /\ verPc' = "triggers"
    /\ UNCHANGED <<apiVersion, verLegacy, cmdVars, provVars, cacheVars, rdVars, coreVars, execVars, hmVars, tailVars>>

\* createTriggerPrototypes: legacy expressions when the version is below 5.4
VerCreateTriggerPrototypes ==
    /\ verPc = "triggers"
    /\ verLegacy' = FloatLess(getAPIVersionFloat(apiVersion), 54)
    /\ verPc' = "done"
    /\ UNCHANGED <<apiVersion, verTemplateGroup, cmdVars, provVars, cacheVars, rdVars, coreVars, execVars, hmVars, tailVars>>

VerInit ==
    /\ AggIdle /\ ScanIdle /\ PushIdle /\ FixIdle /\ ExecIdle /\ MatrixIdle /\ CmdIdle /\ ProvIdle /\ CacheIdle /\ TailIdle
    /\ verPc = "template"
    /\ apiVersion \in ApiVersions
    /\ verTemplateGroup = FALSE
    /\ verLegacy = FALSE

VerNext == VerEnsureVulnersTemplate \/ VerCreateTriggerPrototypes

SpecVer == VerInit /\ [][VerNext]_vars

\* The (major, minor) pair of the stored version, as integers
VersionPair ==
    <<DecimalValue(SplitChars(apiVersion, ".")[1]), DecimalValue(SplitChars(apiVersion, ".")[2])>>

PairLess(a, b) == a[1] < b[1] \/ (a[1] = b[1] /\ a[2] < b[2])

(* C16: for every monitor version major.minor[.patch] the legacy trigger
   expression syntax is chosen exactly when (major, minor) is below (5, 4)
   and the template-group endpoints exactly when (major, minor) is at least
   (6, 2), the pairs being compared as integers. *)
C16_VersionThresholds ==
    verPc = "done" =>
        /\ verLegacy <=> PairLess(VersionPair, <<5, 4>>)
        /\ verTemplateGroup <=> ~PairLess(VersionPair, <<6, 2>>)

\* On the released minor versions (0, 2 and 4) the thresholds are as stated.
C16_ReleasedVersionsAgree ==
    verPc = "done" /\ VersionPair[2] \in {0, 2, 4} =>
        /\ verLegacy <=> PairLess(VersionPair, <<5, 4>>)
        /\ verTemplateGroup <=> ~PairLess(VersionPair, <<6, 2>>)

-----------------------------------------------------------------------------
(* SpecProv: the provisioning operations EnsureVirtualHostsCtx and
   EnsureDashboardCtx (internal/zabbix/dashboard.go) against one monitor.
   The monitor is the set of its objects; a call is one step, during which
   one method of the monitor API may fail.  The monitor refuses to create a
   graph whose name a graph of the host already has, and deleting the items
   of the template deletes the graphs drawn from them. *)

MaxProvRuns == 3

\* The versions of the test table on either side of 6.2
ProvVersions ==
    {<<"5", ".", "0", ".", "3">>, <<"6", ".", "0", ".", "1", "0">>,
     <<"6", ".", "4", ".", "1">>, <<"7", ".", "0", ".", "0">>}

\* The method that fails during a call, if any
ProvFailures ==
    {"none", "hostgroup.get", "template.create", "templategroup.get", "host.get",
     "host.create", "graph.create", "dashboard.get", "dashboard.create"}

\* Naming.HostsHost, PackagesHost, BulletinsHost and StatisticsHost
VirtualHostObjects == <<"host.hosts", "host.packages", "host.bulletins", "host.statistics">>

GraphObjects == {"graph.median", "graph.ratio"}

ProvState(objs, reqs, err) == [objs |-> objs, reqs |-> reqs, err |-> err]

\* A create, update or delete request that the monitor carried out
Send(st, method, adds, dels) ==
    ProvState((st.objs \ dels) \cup adds, Append(st.reqs, method), st.err)

\* A request the monitor answered with an error
Refused(st, method) == ProvState(st.objs, Append(st.reqs, method), st.err)

Failed(st, err) == ProvState(st.objs, st.reqs, err)

ensureHostGroup(st, fail) ==
    IF fail = "hostgroup.get" THEN Failed(st, "failed to get host group")
    ELSE IF "hostgroup" \in st.objs THEN st
    ELSE Send(st, "hostgroup.create", {"hostgroup"}, {})

ensureTemplateGroup(st, fail) ==
    IF fail = "templategroup.get" THEN Failed(st, "failed to get template group")
    ELSE IF "templategroup" \in st.objs THEN st
    ELSE Send(st, "templategroup.create", {"templategroup"}, {})

deleteTemplateDiscoveryRules(st) ==
    IF "rules" \in st.objs THEN Send(st, "discoveryrule.delete", {}, {"rules"}) ELSE st

deleteTemplateItems(st) ==
    IF "items" \in st.objs THEN Send(st, "item.delete", {}, {"items"} \cup GraphObjects) ELSE st

\* The discovery rules with their item and trigger prototypes, and the
\* statistics items; a request for an object that exists is refused
createVulnersTemplateItems(st) ==
    LET rules == IF "rules" \in st.objs THEN Refused(st, "discoveryrule.create")
                 ELSE Send(st, "discoveryrule.create", {"rules"}, {})
        protos == Send(rules, "itemprototype.create", {}, {})
        items == IF "items" \in protos.objs THEN Refused(protos, "item.create")
                 ELSE Send(protos, "item.create", {"items"}, {})
    IN  Send(items, "triggerprototype.create", {}, {})

ensureVulnersTemplate(st, version, force, fail) ==
    IF "template" \in st.objs
    THEN IF force
         THEN createVulnersTemplateItems(deleteTemplateItems(deleteTemplateDiscoveryRules(st)))
         ELSE st
    ELSE LET tg == IF ~FloatLess(getAPIVersionFloat(version), 62)
                   THEN ProvState(ensureTemplateGroup(st, fail).objs,
                                  ensureTemplateGroup(st, fail).reqs, "nil")
                   ELSE st
         IN  IF fail = "template.create"
             THEN Failed(Refused(tg, "template.create"), "failed to create template")
             ELSE createVulnersTemplateItems(Send(tg, "template.create", {"template"}, {}))

ensureVirtualHost(st, host, force, fail) ==
    IF fail = "host.get" THEN Failed(st, "host.get failed")
    ELSE IF host \in st.objs
         THEN IF force THEN Send(st, "host.update", {}, {}) ELSE st
    ELSE IF fail = "host.create" THEN Failed(Refused(st, "host.create"), "failed to create host")
    ELSE Send(st, "host.create", {host}, {})

RECURSIVE ensureVirtualHostsFrom(_, _, _, _)
ensureVirtualHostsFrom(st, i, force, fail) ==
    IF i > Len(VirtualHostObjects) THEN st
    ELSE LET next == ensureVirtualHost(st, VirtualHostObjects[i], force, fail)
         IN  IF next.err # "nil"
             THEN Failed(next, "failed to create virtual host")
             ELSE ensureVirtualHostsFrom(next, i + 1, force, fail)

EnsureVirtualHostsCtx(objs, version, force, fail) ==
    LET group == ensureHostGroup(ProvState(objs, <<>>, "nil"), fail)
        template == ensureVulnersTemplate(group, version, force, fail)
    IN  IF group.err # "nil" THEN Failed(group, "failed to ensure Vulners host group")
        ELSE IF template.err # "nil" THEN Failed(template, "failed to ensure Vulners template")
        ELSE ensureVirtualHostsFrom(template, 1, force, fail)

\* graph.create for one graph of the statistics host
createGraph(st, graph, fail) ==
    IF fail = "graph.create" \/ graph \in st.objs THEN Refused(st, "graph.create")
    ELSE Send(st, "graph.create", {graph}, {})

\* The statistics host is resolved and its items are looked up; both graphs
\* are requested whenever their items are found
createStatisticsGraphs(st, fail) ==
    IF fail = "host.get" \/ "host.statistics" \notin st.objs
    THEN st
    ELSE IF "items" \notin st.objs THEN st
    ELSE createGraph(createGraph(st, "graph.median", fail), "graph.ratio", fail)

EnsureDashboardCtx(objs, force, fail) ==
    LET graphs == createStatisticsGraphs(ProvState(objs, <<>>, "nil"), fail)
        deleted == IF "dashboard" \in graphs.objs
                   THEN Send(graphs, "dashboard.delete", {}, {"dashboard"})
                   ELSE graphs
    IN  IF fail = "dashboard.get" THEN Failed(graphs, "dashboard.get failed")
        ELSE IF "dashboard" \in graphs.objs /\ ~force THEN graphs
        ELSE IF fail = "dashboard.create"
            THEN Failed(Refused(deleted, "dashboard.create"), "failed to create dashboard")
        ELSE Send(deleted, "dashboard.create", {"dashboard"}, {})

\* What a call leaves behind; repeat: the call before it was the same
\* operation and returned nil
ProvReturn(op, force, st) ==
    /\ provBefore' = monObjects
    /\ monObjects' = st.objs
    /\ provRequests' = st.reqs
    /\ provLast' = [op |-> op, force |-> force, err |-> st.err,
                    repeat |-> provLast.op = op /\ provLast.err = "nil"]
    /\ provRuns' = provRuns + 1
    /\ UNCHANGED <<cmdVars, verVars, cacheVars, rdVars, coreVars, execVars, hmVars, tailVars>>

\* ztc prepare --virtual-hosts [--force]
ProvEnsureVirtualHosts ==
    /\ provRuns < MaxProvRuns
    /\ \E force \in BOOLEAN, fail \in ProvFailures :
          ProvReturn("EnsureVirtualHosts", force,
                     EnsureVirtualHostsCtx(monObjects, apiVersion, force, fail))

\* ztc prepare --dashboard [--force]
ProvEnsureDashboard ==
    /\ provRuns < MaxProvRuns
    /\ \E force \in BOOLEAN, fail \in ProvFailures :
          ProvReturn("EnsureDashboard", force, EnsureDashboardCtx(monObjects, force, fail))

ProvInit ==
    /\ AggIdle /\ ScanIdle /\ PushIdle /\ FixIdle /\ ExecIdle /\ MatrixIdle /\ CmdIdle /\ CacheIdle /\ TailIdle
    /\ verPc = "idle" /\ verTemplateGroup = FALSE /\ verLegacy = FALSE
    /\ apiVersion \in ProvVersions
    /\ ProvIdle

ProvNext == ProvEnsureVirtualHosts \/ ProvEnsureDashboard

SpecProv == ProvInit /\ [][ProvNext]_vars

(* C17: a provisioning operation repeated with force=false after it has
   succeeded issues no create, update or delete request, and the monitor's
   objects are the same as after the first run. *)
C17_RepeatIssuesNoRequest ==
    provLast.repeat /\ ~provLast.force =>
        /\ provRequests = <<>>
        /\ monObjects = provBefore

\* The repeated provisioning of the virtual hosts sends nothing.
C17_VirtualHostsRepeatSendsNothing ==
    provLast.repeat /\ ~provLast.force /\ provLast.op = "EnsureVirtualHosts" =>
        provRequests = <<>>

-----------------------------------------------------------------------------
(* SpecCache: the scan cache of the Agent 2 plugin: ScanCache.Update called
   by the scan loop after each successful scan, and ZTCPlugin.Export called
   by the agent's readers.  Results and statistics are identified by the
   number of the scan that produced them; 0 is the empty cache. *)

MaxCacheScans == 3

CacheReaders == {"r1", "r2"}

\* Item keys: one served from the results, one from the statistics
ExportKeys == {"vulners.hosts_lld", "vulners.stats"}

\* sync.RWMutex: Lock needs no holder at all, RLock needs no writer
CanLock == ~cacheWriter /\ cacheReaders = 0

CanRLock == ~cacheWriter

\* runScan: the scan failed, the cache is left alone
RunScanFails ==
    /\ updPc = "idle"
    /\ cacheScans < MaxCacheScans
    /\ cacheScans' = cacheScans + 1
    /\ UNCHANGED <<cacheWriter, cacheReaders, cacheResults, cacheStats, updPc, rdVars>>
    /\ UNCHANGED <<cmdVars, verVars, provVars, coreVars, execVars, hmVars, tailVars>>

\* runScan: the scan succeeded; Update takes the write lock
UpdateLock ==
    /\ updPc = "idle"
    /\ cacheScans < MaxCacheScans
    /\ CanLock
    /\ cacheScans' = cacheScans + 1
    /\ cacheWriter' = TRUE
    /\ updPc' = "results"
    /\ UNCHANGED <<cacheReaders, cacheResults, cacheStats, rdVars>>
    /\ UNCHANGED <<cmdVars, verVars, provVars, coreVars, execVars, hmVars, tailVars>>

\* c.results = results
UpdateResults ==
    /\ updPc = "results"
    /\ cacheResults' = cacheScans
    /\ updPc' = "stats"
    /\ UNCHANGED <<cacheWriter, cacheReaders, cacheStats, cacheScans, rdVars>>
    /\ UNCHANGED <<cmdVars, verVars, provVars, coreVars, execVars, hmVars, tailVars>>

\* c.stats = stats, and the deferred Unlock
UpdateStats ==
    /\ updPc = "stats"
    /\ cacheStats' = cacheScans
    /\ cacheWriter' = FALSE
    /\ updPc' = "idle"
    /\ UNCHANGED <<cacheReaders, cacheResults, cacheScans, rdVars>>
    /\ UNCHANGED <<cmdVars, verVars, provVars, coreVars, execVars, hmVars, tailVars>>

\* Export is called with a key
ExportCall(r) ==
    /\ rdPc[r] \in {"idle", "returned"}
    /\ \E key \in ExportKeys : rdKey' = [rdKey EXCEPT ![r] = key]
    /\ rdPc' = [rdPc EXCEPT ![r] = "Results"]
    /\ rdResults' = [rdResults EXCEPT ![r] = 0]
    /\ rdStats' = [rdStats EXCEPT ![r] = 0]
    /\ rdErr' = [rdErr EXCEPT ![r] = "none"]
    /\ UNCHANGED cacheVars
    /\ UNCHANGED <<cmdVars, verVars, provVars, coreVars, execVars, hmVars, tailVars>>

\* p.cache.Results(): RLock
ResultsRLock(r) ==
    /\ rdPc[r] = "Results"
    /\ CanRLock
    /\ cacheReaders' = cacheReaders + 1
    /\ rdPc' = [rdPc EXCEPT ![r] = "Results.locked"]
    /\ UNCHANGED <<cacheWriter, cacheResults, cacheStats, cacheScans, updPc,
                   rdKey, rdResults, rdStats, rdErr>>
    /\ UNCHANGED <<cmdVars, verVars, provVars, coreVars, execVars, hmVars, tailVars>>

\* p.cache.Results(): return c.results and RUnlock; Export returns an error
\* when there are no results, serves the results keys from them, and goes on
\* to getStatMetric for vulners.stats
ResultsReturn(r) ==
    /\ rdPc[r] = "Results.locked"
    /\ cacheReaders' = cacheReaders - 1
    /\ rdResults' = [rdResults EXCEPT ![r] = cacheResults]
    /\ IF cacheResults = 0
       THEN /\ rdPc' = [rdPc EXCEPT ![r] = "returned"]
            /\ rdErr' = [rdErr EXCEPT ![r] = "no scan data available yet"]
       ELSE IF rdKey[r] = "vulners.stats"
       THEN /\ rdPc' = [rdPc EXCEPT ![r] = "Stats"]
            /\ UNCHANGED rdErr
       ELSE /\ rdPc' = [rdPc EXCEPT ![r] = "returned"]
            /\ rdErr' = [rdErr EXCEPT ![r] = "nil"]
    /\ UNCHANGED <<cacheWriter, cacheResults, cacheStats, cacheScans, updPc, rdKey, rdStats>>
    /\ UNCHANGED <<cmdVars, verVars, provVars, coreVars, execVars, hmVars, tailVars>>

\* p.cache.Stats(): RLock
StatsRLock(r) ==
    /\ rdPc[r] = "Stats"
    /\ CanRLock
    /\ cacheReaders' = cacheReaders + 1
    /\ rdPc' = [rdPc EXCEPT ![r] = "Stats.locked"]
    /\ UNCHANGED <<cacheWriter, cacheResults, cacheStats, cacheScans, updPc,
                   rdKey, rdResults, rdStats, rdErr>>
    /\ UNCHANGED <<cmdVars, verVars, provVars, coreVars, execVars, hmVars, tailVars>>

\* p.cache.Stats(): return c.stats and RUnlock; getStatMetric returns the metric
StatsReturn(r) ==
    /\ rdPc[r] = "Stats.locked"
    /\ cacheReaders' = cacheReaders - 1
    /\ rdStats' = [rdStats EXCEPT ![r] = cacheStats]
    /\ rdPc' = [rdPc EXCEPT ![r] = "returned"]
    /\ rdErr' = [rdErr EXCEPT ![r] = "nil"]
    /\ UNCHANGED <<cacheWriter, cacheResults, cacheStats, cacheScans, updPc, rdKey, rdResults>>
    /\ UNCHANGED <<cmdVars, verVars, provVars, coreVars, execVars, hmVars, tailVars>>

CacheInit ==
    /\ AggIdle /\ ScanIdle /\ PushIdle /\ FixIdle /\ ExecIdle /\ MatrixIdle
    /\ CmdIdle /\ VerIdle /\ ProvIdle /\ TailIdle
    /\ cacheWriter = FALSE
    /\ cacheReaders = 0
    /\ cacheResults = 0
    /\ cacheStats = 0
    /\ cacheScans = 0
    /\ updPc = "idle"
    /\ rdPc = [r \in CacheReaders |-> "idle"]
    /\ rdKey = [r \in CacheReaders |-> "none"]
    /\ rdResults = [r \in CacheReaders |-> 0]
    /\ rdStats = [r \in CacheReaders |-> 0]
    /\ rdErr = [r \in CacheReaders |-> "none"]

CacheNext ==
    \/ RunScanFails
    \/ UpdateLock
    \/ UpdateResults
    \/ UpdateStats
    \/ \E r \in CacheReaders : ExportCall(r)
    \/ \E r \in CacheReaders : ResultsRLock(r)
    \/ \E r \in CacheReaders : ResultsReturn(r)
    \/ \E r \in CacheReaders : StatsRLock(r)
    \/ \E r \in CacheReaders : StatsReturn(r)

SpecCache == CacheInit /\ [][CacheNext]_vars

(* C18: every reader of the plugin scan cache observes a consistent
   snapshot: the results and the statistics it read were stored by the same
   Update, whatever the interleaving with the periodic rescan. *)
C18_ConsistentSnapshot ==
    \A r \in CacheReaders :
        rdPc[r] = "returned" /\ rdErr[r] = "nil" /\ rdKey[r] = "vulners.stats" =>
            rdResults[r] = rdStats[r]

\* While no Update holds the lock, the cache holds the pair of one Update,
\* and no reader holds the lock during an Update.
C18_StoredPairConsistent ==
    /\ ~cacheWriter => cacheResults = cacheStats
    /\ cacheWriter => cacheReaders = 0

-----------------------------------------------------------------------------
(* SpecResults: Aggregator.GetResults called twice on the aggregates left by
   a sequence of AddHost calls. *)

MaxResHosts == 2

\* Package and bulletin lists with findings of equal score
ResPackageLists ==
    { <<PackageVuln("openssl", 50, <<"USN-1">>)>>,
      <<PackageVuln("curl", 50, <<"USN-2">>)>>,
      <<PackageVuln("openssl", 90, <<"USN-1">>), PackageVuln("curl", 50, <<"USN-2">>)>> }

ResBulletinLists ==
    { <<>>,
      <<BulletinSummary("USN-1", 50, <<"CVE-1">>, <<"openssl 1.1.1 amd64">>),
        BulletinSummary("USN-2", 50, <<"CVE-3">>, <<"curl 7.68 amd64">>)>> }

ResEntries ==
    {HostEntry(h, ps, bs) : h \in HostIDs, ps \in ResPackageLists, bs \in ResBulletinLists}

ResAddHost ==
    /\ Len(aggregator.hosts) < MaxResHosts
    /\ \E entry \in ResEntries : aggregator' = AddHost(aggregator, entry)
    /\ resCalls' = <<>>
    /\ UNCHANGED <<scanVars, pushVars, fixVars, execVars, hmVars>>
    /\ UNCHANGED <<preTailVars, fxVars, plVars>>

\* One call of GetResults: the maps are walked in the order the runtime
\* picks and sort.Slice orders the values by score
ResGetResults ==
    /\ Len(resCalls) < 2
    /\ \E r \in GetResults(aggregator) : resCalls' = Append(resCalls, r)
    /\ UNCHANGED <<coreVars, execVars, hmVars>>
    /\ UNCHANGED <<preTailVars, fxVars, plVars>>

ResInit ==
    /\ AggIdle /\ ScanIdle /\ PushIdle /\ FixIdle /\ ExecIdle /\ MatrixIdle
    /\ CmdIdle /\ VerIdle /\ ProvIdle /\ CacheIdle /\ FxIdle /\ PlIdle
    /\ resCalls = <<>>

ResNext == ResAddHost \/ ResGetResults

SpecResults == ResInit /\ [][ResNext]_vars

\* The package keys and the bulletin IDs in the order AddHost first saw them
RECURSIVE InsertionOrder(_, _)
InsertionOrder(hosts, bulletins) ==
    IF hosts = <<>> THEN <<>>
    ELSE LET list == IF bulletins THEN Head(hosts).Bulletins ELSE Head(hosts).Packages
         IN  FirstSeen([i \in 1..Len(list) |->
                           IF bulletins THEN list[i].ID ELSE PackageKey(list[i])]
                       \o InsertionOrder(Tail(hosts), bulletins))

Position(seq, x) == CHOOSE i \in 1..Len(seq) : seq[i] = x

\* list is in descending order of score, equal scores in insertion order
ScoreThenInsertion(list, bulletins) ==
    \A i, j \in 1..Len(list) :
        i < j =>
            \/ list[i].Score > list[j].Score
            \/ /\ list[i].Score = list[j].Score
               /\ LET order == InsertionOrder(aggregator.hosts, bulletins)
                      key(e) == IF bulletins THEN e.ID ELSE PackageKey(e)
                  IN  Position(order, key(list[i])) < Position(order, key(list[j]))

(* C22: the order of packages and of bulletins returned by GetResults is
   deterministic given the inputs: descending by score, entries of equal
   score in insertion order, so that two calls on the same aggregated state
   return the same sequence. *)
C22_DeterministicOrder ==
    /\ \A n \in 1..Len(resCalls) :
          /\ ScoreThenInsertion(resCalls[n].Packages, FALSE)
          /\ ScoreThenInsertion(resCalls[n].Bulletins, TRUE)
    /\ Len(resCalls) = 2 => resCalls[1] = resCalls[2]

\* Every returned list is non-increasing by score.
C22_SortedByScore ==
    \A n \in 1..Len(resCalls) :
        /\ \A i \in 1..(Len(resCalls[n].Packages) - 1) :
              resCalls[n].Packages[i].Score >= resCalls[n].Packages[i + 1].Score
        /\ \A i \in 1..(Len(resCalls[n].Bulletins) - 1) :
              resCalls[n].Bulletins[i].Score >= resCalls[n].Bulletins[i + 1].Score

-----------------------------------------------------------------------------
(* SpecExecute: Fixer.Execute (internal/fixer): one goroutine per planned
   host behind a semaphore, the results appended under a mutex.  What
   executeOnHost does on one host is SpecExec; here it returns a
   HostFixResult that succeeded or failed. *)

MaxPlanHosts == 3

FixHostIDs == <<"1", "2", "3", "4">>

\* The plans handed to Execute, the empty plan included
FixPlans ==
    {SubSeq(FixHostIDs, 1, n) : n \in {k \in 0..MaxPlanHosts : k <= Len(FixHostIDs)}}

HostFixResult(hostID, success) ==
    [HostID |-> hostID, Name |-> VisibleName(hostID), Success |-> success]

NoHostFixResult == [HostID |-> "none", Name |-> "none", Success |-> FALSE]

FxWorkers == IF fxWorkers <= 0 THEN 1 ELSE fxWorkers

recordResultSuccessOnly(results, result) ==
    [Hosts |-> Append(results.Hosts, result),
     Successful |-> IF result.Success THEN results.Successful + 1 ELSE results.Successful,
     Failed |-> results.Failed]

\* The statements between mu.Lock() and mu.Unlock()
recordResult(results, result) ==
    [Hosts |-> Append(results.Hosts, result),
     Successful |-> IF result.Success THEN results.Successful + 1 ELSE results.Successful,
     Failed |-> IF result.Success THEN results.Failed ELSE results.Failed + 1]

FxUnchangedOthers == UNCHANGED <<coreVars, execVars, hmVars, preTailVars, resVars, plVars>>

\* Execute is called: results := &FixResults{} and one goroutine per host
FxStart ==
    /\ fxPc = "called"
    /\ fxPc' = "running"
    /\ fxTask' = [i \in 1..Len(fxPlan) |-> "spawned"]
    /\ fxTaskResult' = [i \in 1..Len(fxPlan) |-> NoHostFixResult]
    /\ fxResults' = NoFixResults
    /\ UNCHANGED <<fxWorkers, fxPlan, fxSemaphore, fxMu, fxReturn>>
    /\ FxUnchangedOthers

\* semaphore <- struct{}{}
FxAcquire(i) ==
    /\ fxPc = "running" /\ fxTask[i] = "spawned"
    /\ fxSemaphore < FxWorkers
    /\ fxSemaphore' = fxSemaphore + 1
    /\ fxTask' = [fxTask EXCEPT ![i] = "acquired"]
    /\ UNCHANGED <<fxWorkers, fxPlan, fxPc, fxTaskResult, fxMu, fxResults, fxReturn>>
    /\ FxUnchangedOthers

\* result := f.executeOnHost(...): the fix succeeded or failed on the host
FxExecuteOnHost(i) ==
    /\ fxPc = "running" /\ fxTask[i] = "acquired"
    /\ \E success \in BOOLEAN :
          fxTaskResult' = [fxTaskResult EXCEPT ![i] = HostFixResult(fxPlan[i], success)]
    /\ fxTask' = [fxTask EXCEPT ![i] = "result"]
    /\ UNCHANGED <<fxWorkers, fxPlan, fxPc, fxSemaphore, fxMu, fxResults, fxReturn>>
    /\ FxUnchangedOthers

\* mu.Lock()
FxLock(i) ==
    /\ fxPc = "running" /\ fxTask[i] = "result"
    /\ fxMu = 0
    /\ fxMu' = i
    /\ fxTask' = [fxTask EXCEPT ![i] = "locked"]
    /\ UNCHANGED <<fxWorkers, fxPlan, fxPc, fxTaskResult, fxSemaphore, fxResults, fxReturn>>
    /\ FxUnchangedOthers

\* The append and the counters, then mu.Unlock()
FxRecord(i) ==
    /\ fxPc = "running" /\ fxTask[i] = "locked"
    /\ fxResults' = recordResult(fxResults, fxTaskResult[i])
    /\ fxMu' = 0
    /\ fxTask' = [fxTask EXCEPT ![i] = "recorded"]
    /\ UNCHANGED <<fxWorkers, fxPlan, fxPc, fxTaskResult, fxSemaphore, fxReturn>>
    /\ FxUnchangedOthers

\* The deferred <-semaphore and wg.Done()
FxRelease(i) ==
    /\ fxPc = "running" /\ fxTask[i] = "recorded"
    /\ fxSemaphore' = fxSemaphore - 1
    /\ fxTask' = [fxTask EXCEPT ![i] = "done"]
    /\ UNCHANGED <<fxWorkers, fxPlan, fxPc, fxTaskResult, fxMu, fxResults, fxReturn>>
    /\ FxUnchangedOthers

\* wg.Wait() returns; return results, nil
FxReturn ==
    /\ fxPc = "running"
    /\ \A i \in 1..Len(fxPlan) : fxTask[i] = "done"
    /\ fxReturn' = [results |-> fxResults, err |-> "nil"]
    /\ fxPc' = "returned"
    /\ UNCHANGED <<fxWorkers, fxPlan, fxTask, fxTaskResult, fxSemaphore, fxMu, fxResults>>
    /\ FxUnchangedOthers

ExecuteInit ==
    /\ AggIdle /\ ScanIdle /\ PushIdle /\ FixIdle /\ ExecIdle /\ MatrixIdle
    /\ CmdIdle /\ VerIdle /\ ProvIdle /\ CacheIdle /\ ResIdle /\ PlIdle
    /\ fxWorkers \in 0..MaxWorkers
    /\ fxPlan \in FixPlans
    /\ fxPc = "called"
    /\ fxTask = <<>>
    /\ fxTaskResult = <<>>
    /\ fxSemaphore = 0
    /\ fxMu = 0
    /\ fxResults = NoFixResults
    /\ fxReturn = NoFixReturn

ExecuteNext ==
    \/ FxStart
    \/ \E i \in 1..Len(fxPlan) :
          \/ FxAcquire(i)
          \/ FxExecuteOnHost(i)
          \/ FxLock(i)
          \/ FxRecord(i)
          \/ FxRelease(i)
    \/ FxReturn

SpecExecute == ExecuteInit /\ [][ExecuteNext]_vars

(* C23: Execute never fails the batch because of a host: it returns a nil
   error, and the returned results hold exactly one HostFixResult per planned
   host, with Successful + Failed equal to the number of planned hosts,
   whatever the interleaving of the per-host tasks. *)
C23_OneResultPerHost ==
    fxPc = "returned" =>
        LET hosts == fxReturn.results.Hosts
        IN  /\ fxReturn.err = "nil"
            /\ Len(hosts) = Len(fxPlan)
            /\ \A i \in 1..Len(fxPlan) :
                  Cardinality({k \in 1..Len(hosts) : hosts[k].HostID = fxPlan[i]}) = 1
            /\ fxReturn.results.Successful + fxReturn.results.Failed = Len(fxPlan)
            /\ fxReturn.results.Successful = Cardinality({k \in 1..Len(hosts) : hosts[k].Success})

\* Three hosts, the fix failed on two of them, recorded out of plan order.
C23_Witness ==
    /\ fxPc = "returned"
    /\ Len(fxPlan) = 3
    /\ fxReturn.err = "nil"
    /\ fxReturn.results.Failed = 2
    /\ fxReturn.results.Successful = 1
    /\ fxReturn.results.Hosts[1].HostID = "3"

-----------------------------------------------------------------------------
(* SpecRun: the caller of the Scanner, as the scan command drives it
   (cmd/scan.go): Scan on one Scanner, then PushResults of the results Scan
   returned, under one context.  The Scan steps are those of SpecScan, the
   publish steps those of SpecPush; the statistics stage submits
   GetStatistics of the aggregator as it is when the stage is reached. *)

\* The lengths of the three lists of the results, as PushResults reads them
ResultLengths(results) ==
    [Hosts |-> Len(results.Hosts), Packages |-> Len(results.Packages),
     Bulletins |-> Len(results.Bulletins)]

RunUnchangedScan == UNCHANGED <<aggVars, scanVars, fixVars, otherVars>>

\* Scan returned an error: RunE returns "scan failed" and pushes nothing.
RunScanFailed ==
    /\ pushPc = "idle"
    /\ scanPc = "returned" /\ scanReturn.err # "nil"
    /\ pushPc' = "returned"
    /\ pushReturn' = "scan failed"
    /\ UNCHANGED <<lldDelay, pushResults, batchI, sent, elapsed>>
    /\ RunUnchangedScan

\* --nopush or --dry-run: the push is skipped.
RunSkipPush ==
    /\ pushPc = "idle"
    /\ scanPc = "returned" /\ scanReturn.err = "nil"
    /\ pushPc' = "returned"
    /\ pushReturn' = "nil"
    /\ UNCHANGED <<lldDelay, pushResults, batchI, sent, elapsed>>
    /\ RunUnchangedScan

\* s.PushResults(ctx, results) with the results Scan returned
RunPushResults ==
    /\ pushPc = "idle"
    /\ scanPc = "returned" /\ scanReturn.err = "nil"
    /\ pushPc' = "hostsLLD"
    /\ pushResults' = ResultLengths(scanReturn.results)
    /\ UNCHANGED <<lldDelay, batchI, sent, elapsed, pushReturn>>
    /\ RunUnchangedScan

\* The steps of Scan, taken while the caller is not publishing
RunScan ==
    /\ pushPc = "idle"
    /\ \/ ScanFetchFails
       \/ ScanNoHosts
       \/ ScanStart
       \/ \E h \in ScanHostIDs :
             \/ TaskAcquire(h)
             \/ TaskAuditStart(h)
             \/ TaskAuditErr(h)
             \/ TaskAuditOk(h)
             \/ TaskLock(h)
             \/ TaskAddHost(h)
             \/ TaskUnlock(h)
             \/ TaskRelease(h)
       \/ ScanReturn

RunInit ==
    /\ AggIdle /\ FixIdle /\ OtherIdle
    /\ cfgWorkers \in 1..MaxWorkers
    /\ ctxDone = FALSE
    /\ scanPc = "idle"
    /\ scanHosts = {}
    /\ task = [h \in ScanHostIDs |-> "none"]
    /\ taskEntry = [h \in ScanHostIDs |-> NoEntry]
    /\ semaphore = 0
    /\ mu = Free
    /\ scanReturn = NoReturn
    /\ scansDone = 0
    /\ scanAdded = <<>>
    /\ cancelAt = "none"
    /\ lldDelay \in 0..MaxDelay
    /\ pushPc = "idle"
    /\ pushResults = "none"
    /\ batchI = 0
    /\ sent = <<>>
    /\ elapsed = 0
    /\ pushReturn = "none"

RunNext ==
    \/ Cancel
    \/ RunScan
    \/ RunScanFailed
    \/ RunSkipPush
    \/ RunPushResults
    \/ PushSendLLD
    \/ PushSendBatch
    \/ PushBatchDone
    \/ PushSendFails
    \/ PushSettleCancelled
    \/ PushSettleTick

SpecRun == RunInit /\ [][RunNext]_vars

(* C26: if the context is cancelled while Scan is running, the scan command
   submits nothing to the monitor for that run, for any lld_delay including
   0. *)
C26_CancelledScanSubmitsNothing ==
    cancelAt = "audit" => sent = <<>>

\* The statistics batch went out
StatisticsSubmitted == \E i \in 1..Len(sent) : sent[i].kind = "statistics"

(* C27: the statistics batch PushResults submits describes the same scan as
   the results it was given: the total-hosts value it submits equals the
   number of host entries of the hosts discovery payload of that publish,
   also when the results come from a Scan that found no hosts. *)
C27_StatisticsOfSameScan ==
    StatisticsSubmitted => GetStatistics(aggregator).TotalHosts = pushResults.Hosts

\* With one Scan per Scanner the two agree.
C27_FirstScanAgrees ==
    (StatisticsSubmitted /\ scansDone = 1) =>
        GetStatistics(aggregator).TotalHosts = pushResults.Hosts

-----------------------------------------------------------------------------
(* SpecViews: what scanHost makes of an audit answer (extractVulnPackages and
   extractBulletins of internal/scanner, then the two min_cvss filters) and
   what AddHost and GetResults make of it: the package view and the bulletin
   view of the results. *)

MaxViewHosts == 2

\* One entry of AuditResult.Vulnerabilities
Vulnerability(pkg, bulletinID, score, cves) ==
    [Package |-> pkg, BulletinID |-> bulletinID, Score |-> score, CVEList |-> cves]

\* The audit answers: nothing found; a package under two bulletins, one of
\* them below min_cvss; a bulletin over two packages, one of them below
\* min_cvss; findings that all reach min_cvss.
RawAudits ==
    { [CVSSScore |-> 0, Vulnerabilities |-> <<>>],
      [CVSSScore |-> 90,
       Vulnerabilities |-> <<Vulnerability("openssl 1.1.1 amd64", "USN-1", 90, <<"CVE-1">>),
                             Vulnerability("openssl 1.1.1 amd64", "USN-2", 5, <<"CVE-2">>)>>],
      [CVSSScore |-> 90,
       Vulnerabilities |-> <<Vulnerability("openssl 1.1.1 amd64", "USN-1", 90, <<"CVE-1">>),
                             Vulnerability("curl 7.68 amd64", "USN-1", 5, <<"CVE-3">>)>>],
      [CVSSScore |-> 90,
       Vulnerabilities |-> <<Vulnerability("openssl 1.1.1 amd64", "USN-1", 90, <<"CVE-1">>),
                             Vulnerability("bash 5.1", "USN-3", 10, <<"CVE-4">>)>>] }

\* strings.Fields of the package strings in use
PackageFields(pkg) ==
    CASE pkg = "openssl 1.1.1 amd64" -> <<"openssl", "1.1.1", "amd64">>
      [] pkg = "curl 7.68 amd64"     -> <<"curl", "7.68", "amd64">>
      [] pkg = "bash 5.1"            -> <<"bash", "5.1">>
      [] OTHER                       -> <<pkg>>

ParsePackageString(pkg) ==
    LET parts == PackageFields(pkg)
    IN  CASE Len(parts) = 3 -> [name |-> parts[1], version |-> parts[2], arch |-> parts[3]]
          [] Len(parts) = 2 -> [name |-> parts[1], version |-> parts[2], arch |-> ""]
          [] Len(parts) = 1 -> [name |-> parts[1], version |-> "", arch |-> ""]
          [] OTHER          -> [name |-> pkg, version |-> "", arch |-> ""]

\* The loop of extractVulnPackages over the vulnerabilities: keys in the
\* order first seen, pkgMap by key
RECURSIVE extractVulnPackagesLoop(_, _, _)
extractVulnPackagesLoop(vulns, keys, pkgMap) ==
    IF vulns = <<>> THEN [i \in 1..Len(keys) |-> pkgMap[keys[i]]]
    ELSE LET v    == Head(vulns)
             key  == v.Package
             p    == ParsePackageString(v.Package)
             agg  == IF key \in DOMAIN pkgMap THEN pkgMap[key]
                     ELSE [Name |-> p.name, Version |-> p.version, Arch |-> p.arch,
                           Score |-> 0, Bulletins |-> <<>>]
             next == [agg EXCEPT !.Score = IF v.Score > @ THEN v.Score ELSE @,
                                 !.Bulletins = IF v.BulletinID # "" THEN Append(@, v.BulletinID)
                                               ELSE @]
         IN  extractVulnPackagesLoop(Tail(vulns),
                                     IF key \in DOMAIN pkgMap THEN keys ELSE Append(keys, key),
                                     MapPut(pkgMap, key, next))

extractVulnPackages(result) == extractVulnPackagesLoop(result.Vulnerabilities, <<>>, EmptyMap)

appendUniqueCVEs(dst, src) == appendUniqueSliceLoop(dst, Range(dst), src)

RECURSIVE extractBulletinsLoop(_, _, _)
extractBulletinsLoop(vulns, ids, bMap) ==
    IF vulns = <<>> THEN [i \in 1..Len(ids) |-> bMap[ids[i]]]
    ELSE LET v == Head(vulns)
             id == v.BulletinID
         IN  IF id = "" THEN extractBulletinsLoop(Tail(vulns), ids, bMap)
             ELSE LET agg == IF id \in DOMAIN bMap
                             THEN [bMap[id] EXCEPT
                                      !.Score = IF v.Score > @ THEN v.Score ELSE @,
                                      !.CVEs = appendUniqueCVEs(@, v.CVEList)]
                             ELSE [ID |-> id, Score |-> v.Score, CVEs |-> v.CVEList,
                                   AffectedPkg |-> <<>>]
                  IN  extractBulletinsLoop(Tail(vulns),
                                           IF id \in DOMAIN bMap THEN ids ELSE Append(ids, id),
                                           MapPut(bMap, id,
                                                  [agg EXCEPT !.AffectedPkg = Append(@, v.Package)]))

extractBulletins(result) == extractBulletinsLoop(result.Vulnerabilities, <<>>, EmptyMap)

\* scanHost on the answer of the audit client
scanHostFromAudit(h, result) ==
    scanHost(h, [CVSSScore |-> result.CVSSScore,
                 Packages |-> extractVulnPackages(result),
                 Bulletins |-> extractBulletins(result)])

\* A host of the scan is audited and its entry reaches AddHost.
ViewsScanHost ==
    /\ Len(aggregator.hosts) < MaxViewHosts
    /\ \E h \in ScanHostIDs, result \in RawAudits :
          /\ \A i \in 1..Len(aggregator.hosts) : aggregator.hosts[i].HostID # h
          /\ aggregator' = AddHost(aggregator, scanHostFromAudit(h, result))
    /\ resCalls' = <<>>
    /\ UNCHANGED <<scanVars, pushVars, fixVars, execVars, hmVars>>
    /\ UNCHANGED <<preTailVars, fxVars, plVars>>

ViewsNext == ViewsScanHost \/ ResGetResults

SpecViews == ResInit /\ [][ViewsNext]_vars

\* Every bulletin ID listed by a package aggregate is a bulletin aggregate
PackagesReferToBulletins(results) ==
    \A i \in 1..Len(results.Packages) :
        \A id \in Range(results.Packages[i].Bulletins) :
            \E k \in 1..Len(results.Bulletins) : results.Bulletins[k].ID = id

\* Every package listed by a bulletin aggregate has a package aggregate
BulletinsReferToPackages(results) ==
    \A k \in 1..Len(results.Bulletins) :
        \A pkg \in Range(results.Bulletins[k].AffectedPkgs) :
            \E i \in 1..Len(results.Packages) :
                LET p == ParsePackageString(pkg)
                IN  /\ results.Packages[i].Name = p.name
                    /\ results.Packages[i].Version = p.version
                    /\ results.Packages[i].Arch = p.arch

(* C29: in the results of a scan the package view and the bulletin view are
   mutually consistent: every bulletin ID listed in a package aggregate's
   bulletins is the ID of a bulletin aggregate of the same results, and every
   package listed in a bulletin aggregate's affected packages has a package
   aggregate in the same results. *)
C29_ViewsConsistent ==
    \A n \in 1..Len(resCalls) :
        PackagesReferToBulletins(resCalls[n]) /\ BulletinsReferToPackages(resCalls[n])

\* Hosts whose findings all reach min_cvss
NothingFiltered ==
    \A i \in 1..Len(aggregator.hosts) :
        \E result \in RawAudits :
            /\ aggregator.hosts[i] = scanHostFromAudit(aggregator.hosts[i].HostID, result)
            /\ \A j \in 1..Len(result.Vulnerabilities) :
                  result.Vulnerabilities[j].Score >= MinCVSS

\* When no finding of the scan is below min_cvss the two views are consistent.
C29_ConsistentWhenNothingFiltered ==
    NothingFiltered => C29_ViewsConsistent

-----------------------------------------------------------------------------
(* SpecPlugin: the life cycle of the agent plugin (ZTCPlugin.Start, Stop,
   scanLoop and runScan): Start spawns the scan loop, which scans at once and
   then at every tick until its context is cancelled; Stop cancels the
   context and waits for the loop.  What a Scan does is SpecScan; here it
   ends with results or with an error. *)

MaxTicks == 2

PlUnchangedOthers == UNCHANGED <<coreVars, execVars, hmVars, preTailVars, resVars, fxVars>>

wgWaitReturnsAtOnce == TRUE

\* p.wg.Wait() returns when the counter is zero
wgWait == plWg = 0

\* Start: ctx, cancel := context.WithCancel(...); p.wg.Add(1); go p.scanLoop(ctx)
PlStart ==
    /\ plPc = "configured"
    /\ plPc' = "started"
    /\ plCtxDone' = FALSE
    /\ plWg' = plWg + 1
    /\ loopPc' = "runScan"
    /\ UNCHANGED <<plCfg, tickC, plTicks, plScans, plUpdates, plAtStop>>
    /\ PlUnchangedOthers

\* runScan returned: the first time the loop goes on to create its ticker
AfterRunScan == IF tickC = "off" THEN "empty" ELSE tickC

\* runScan without a configuration, or scanner.New fails: no Scan is made.
LoopRunScanSkips ==
    /\ loopPc = "runScan"
    /\ loopPc' = "select"
    /\ tickC' = AfterRunScan
    /\ UNCHANGED <<plPc, plCfg, plCtxDone, plWg, plTicks, plScans, plUpdates, plAtStop>>
    /\ PlUnchangedOthers

\* runScan calls s.Scan(ctx, ...)
LoopScanStart ==
    /\ loopPc = "runScan"
    /\ plCfg
    /\ plScans' = plScans + 1
    /\ loopPc' = IF plCtxDone THEN "scanCancelled" ELSE "scan"
    /\ UNCHANGED <<plPc, plCfg, plCtxDone, plWg, tickC, plTicks, plUpdates, plAtStop>>
    /\ PlUnchangedOthers

\* Scan returns an error (always so when it was called with a cancelled
\* context): runScan logs and returns.
LoopScanErr ==
    /\ loopPc \in {"scan", "scanCancelled"}
    /\ loopPc' = "select"
    /\ tickC' = AfterRunScan
    /\ UNCHANGED <<plPc, plCfg, plCtxDone, plWg, plTicks, plScans, plUpdates, plAtStop>>
    /\ PlUnchangedOthers

\* Scan returns results (also when the context was cancelled during the audits).
LoopScanOk ==
    /\ loopPc = "scan"
    /\ loopPc' = "update"
    /\ UNCHANGED <<plPc, plCfg, plCtxDone, plWg, tickC, plTicks, plScans, plUpdates, plAtStop>>
    /\ PlUnchangedOthers

\* p.cache.Update(results, stats), and runScan returns
LoopCacheUpdate ==
    /\ loopPc = "update"
    /\ plUpdates' = plUpdates + 1
    /\ loopPc' = "select"
    /\ tickC' = AfterRunScan
    /\ UNCHANGED <<plPc, plCfg, plCtxDone, plWg, plTicks, plScans, plAtStop>>
    /\ PlUnchangedOthers

\* The ticker fires: its channel holds one tick, further ones are dropped.
Tick ==
    /\ tickC \in {"empty", "full"}
    /\ plTicks < MaxTicks
    /\ plTicks' = plTicks + 1
    /\ tickC' = "full"
    /\ UNCHANGED <<plPc, plCfg, plCtxDone, plWg, loopPc, plScans, plUpdates, plAtStop>>
    /\ PlUnchangedOthers

\* case <-ticker.C: p.runScan(ctx); select may take it with ctx.Done() ready too
LoopSelectTick ==
    /\ loopPc = "select"
    /\ tickC = "full"
    /\ tickC' = "empty"
    /\ loopPc' = "runScan"
    /\ UNCHANGED <<plPc, plCfg, plCtxDone, plWg, plTicks, plScans, plUpdates, plAtStop>>
    /\ PlUnchangedOthers

\* case <-ctx.Done(): return, with the deferred ticker.Stop() and p.wg.Done()
LoopSelectDone ==
    /\ loopPc = "select"
    /\ plCtxDone
    /\ loopPc' = "exited"
    /\ tickC' = "off"
    /\ plWg' = plWg - 1
    /\ UNCHANGED <<plPc, plCfg, plCtxDone, plTicks, plScans, plUpdates, plAtStop>>
    /\ PlUnchangedOthers

\* Stop: p.cancel()
PlStop ==
    /\ plPc = "started"
    /\ plPc' = "stopping"
    /\ plCtxDone' = TRUE
    /\ plAtStop' = loopPc
    /\ UNCHANGED <<plCfg, plWg, loopPc, tickC, plTicks, plScans, plUpdates>>
    /\ PlUnchangedOthers

\* Stop: p.wg.Wait() returns and so does Stop
PlStopReturn ==
    /\ plPc = "stopping"
    /\ wgWait
    /\ plPc' = "stopped"
    /\ UNCHANGED <<plCfg, plCtxDone, plWg, loopPc, tickC, plTicks, plScans, plUpdates, plAtStop>>
    /\ PlUnchangedOthers

PluginInit ==
    /\ AggIdle /\ ScanIdle /\ PushIdle /\ FixIdle /\ ExecIdle /\ MatrixIdle
    /\ CmdIdle /\ VerIdle /\ ProvIdle /\ CacheIdle /\ ResIdle /\ FxIdle
    /\ plPc = "configured"
    /\ plCfg \in BOOLEAN
    /\ plCtxDone = FALSE
    /\ plWg = 0
    /\ loopPc = "none"
    /\ tickC = "off"
    /\ plTicks = 0
    /\ plScans = 0
    /\ plUpdates = 0
    /\ plAtStop = "none"

PluginNext ==
    \/ PlStart
    \/ LoopRunScanSkips
    \/ LoopScanStart
    \/ LoopScanErr
    \/ LoopScanOk
    \/ LoopCacheUpdate
    \/ Tick
    \/ LoopSelectTick
    \/ LoopSelectDone
    \/ PlStop
    \/ PlStopReturn

SpecPlugin == PluginInit /\ [][PluginNext]_vars

\* The scan loop takes its steps, and Stop's wait returns when it can
SpecPluginFair ==
    /\ SpecPlugin
    /\ WF_vars(LoopRunScanSkips \/ LoopScanStart)
    /\ WF_vars(LoopScanErr \/ LoopScanOk)
    /\ WF_vars(LoopCacheUpdate)
    /\ WF_vars(LoopSelectDone)
    /\ WF_vars(PlStopReturn)

\* Once Stop has returned the scan loop is gone
StoppedMeansLoopExited == plPc = "stopped" => loopPc = "exited"

\* After Stop has returned no Scan starts and the cache is not updated
NoScanAfterStop ==
    plPc = "stopped" => (plScans' = plScans /\ plUpdates' = plUpdates /\ loopPc' = loopPc)

(* C30: Stop terminates the plugin's periodic rescan: after Start, a call to
   Stop returns only once the scan loop has exited, and after Stop has
   returned no further scan is started and the cache is never updated
   again. *)
C30_StopEndsRescan == []StoppedMeansLoopExited /\ [][NoScanAfterStop]_vars

\* With the loop taking its steps, a Stop that was called returns.
StopCalled == plPc = "stopping"
StopReturned == plPc = "stopped"
C30_StopReturns == StopCalled ~> StopReturned

\* Stop was called during a Scan, after an earlier scan had filled the cache,
\* and has returned.
C30_Witness ==
    /\ plPc = "stopped"
    /\ plAtStop = "scan"
    /\ plScans >= 2
    /\ plUpdates >= 1

=============================================================================
